---- MODULE Spec2Model ----
(***************************************************************************)
(* Model of listar_processos_sei.py: one run of main() against the SEI     *)
(* portal.  Text is a sequence of one-character strings, a form state is a *)
(* function from field names to texts, an HTML page is a record of the     *)
(* parts of the markup the program reads.  The portal is the environment:  *)
(* every request is answered by any page of a bounded set, by a transport  *)
(* failure, or is cut short by a user interrupt.                           *)
(***************************************************************************)
EXTENDS Integers, Sequences, FiniteSets, TLC

VARIABLES
    pc,             \* position of main()/executar_listagem()
    env,            \* os.environ: SEI_ORGAO, SEI_UNIDADE, SEI_USER, SEI_PASS
    session,        \* "none" | "open" | "closed"  (requests.Session)
    closes,         \* number of session.close() calls
    html_login,     \* response.text of the login POST, html_login once login_sei
                    \* has returned; dropped when abrir_controle has used it
    html_controle,  \* control page the collection starts from
    controle_url,   \* URL the control page was fetched from
    unidade,        \* [atual, url]: result of obter_unidade_atual
    html_selecao,   \* unit-selection page
    troca,          \* [tentada, sucesso, html, motivo]: outcome of the unit switch
    info_inicial,   \* obter_paginacao_info(html_inicial)
    grupo,          \* group whose pages are being advanced
    pagina,         \* loop variable of the current group's range()
    html_grupo,     \* html_receb / html_ger of the running loop
    processos,      \* the aggregate list
    ofertados,      \* every record handed to _adicionar_processos, in order
    log,            \* requests sent and pages extracted, in order
    erro,           \* exception propagating out of executar_listagem
    exportado,      \* the .xlsx was written
    exit_code,      \* value returned by main(); -1 while running
    tx              \* the HTTP adapter's transmission of one request, with the
                    \* counters of its Retry object

vars == <<pc, env, session, closes, html_login, html_controle, controle_url,
          unidade, html_selecao, troca, info_inicial, grupo, pagina,
          html_grupo, processos, ofertados, log, erro,
          exportado, exit_code, tx>>

----------------------------------------------------------------------------
(* Bounds of the model *)

\* largest number of markers a login response body holds
MaxMarcas == 2
\* number of distinct id_procedimento values the portal serves
NumIds == 2

----------------------------------------------------------------------------
(* Text helpers *)

Max(a, b) == IF a >= b THEN a ELSE b

Digitos == <<"0", "1", "2", "3", "4", "5", "6", "7", "8", "9">>

IsDigit(c) == \E i \in 1..Len(Digitos) : Digitos[i] = c

DigitVal(c) == (CHOOSE i \in 1..Len(Digitos) : Digitos[i] = c) - 1

IsSpace(c) == c \in {" ", "nbsp"}

\* str(n) for n >= 0
RECURSIVE ToStr(_)
ToStr(n) == IF n < 10 THEN <<Digitos[n + 1]>>
            ELSE ToStr(n \div 10) \o <<Digitos[(n % 10) + 1]>>

RECURSIVE LStrip(_)
LStrip(s) == IF s /= <<>> /\ IsSpace(Head(s)) THEN LStrip(Tail(s)) ELSE s

RECURSIVE RStrip(_)
RStrip(s) == IF s /= <<>> /\ IsSpace(s[Len(s)])
             THEN RStrip(SubSeq(s, 1, Len(s) - 1)) ELSE s

\* str.strip()
Strip(s) == RStrip(LStrip(s))

RECURSIVE DigitsVal(_)
DigitsVal(s) == IF s = <<>> THEN 0
                ELSE 10 * DigitsVal(SubSeq(s, 1, Len(s) - 1)) + DigitVal(s[Len(s)])

\* the digits of an int() literal: the stripped text without its sign
SemSinal(s) == LET t == Strip(s)
               IN  IF t /= <<>> /\ Head(t) \in {"-", "+"} THEN Tail(t) ELSE t

\* int(s) succeeds: optional surrounding whitespace, an optional sign, then
\* one or more digits
IntOk(s) == LET t == SemSinal(s) IN t /= <<>> /\ \A i \in 1..Len(t) : IsDigit(t[i])

\* int(s) when IntOk(s)
IntVal(s) == IF Head(Strip(s)) = "-" THEN 0 - DigitsVal(SemSinal(s))
             ELSE DigitsVal(SemSinal(s))

UpperChar(c) == CASE c = "s" -> "S" [] c = "a" -> "A" [] OTHER -> c

\* str.upper()
Upper(s) == [i \in 1..Len(s) |-> UpperChar(s[i])]

\* re.sub(r"\s+", " ", s)
RECURSIVE CollapseWs(_)
CollapseWs(s) ==
    IF s = <<>> THEN <<>>
    ELSE IF IsSpace(Head(s))
         THEN <<" ">> \o CollapseWs(LStrip(s))
         ELSE <<Head(s)>> \o CollapseWs(Tail(s))

----------------------------------------------------------------------------
(* Form Codec: serializar_* *)

Put(d, n, v) == [x \in (DOMAIN d) \cup {n} |-> IF x = n THEN v ELSE d[x]]

\* dict.update
Update(d, e) == [x \in (DOMAIN d) \cup (DOMAIN e) |->
                    IF x \in DOMAIN e THEN e[x] ELSE d[x]]

EmptyDict == [x \in {} |-> <<>>]

LowerType(t) == CASE t = "RADIO" -> "radio" [] OTHER -> t

RECURSIVE serializar_inputs_de(_, _)
serializar_inputs_de(elems, data) ==
    IF elems = <<>> THEN data
    ELSE LET inp == Head(elems)
             itype == LowerType(inp.type)
         IN  IF inp.tag /= "input" \/ inp.name = ""
             THEN serializar_inputs_de(Tail(elems), data)
             ELSE IF itype \in {"radio", "checkbox"}
                  THEN IF inp.checked
                       THEN serializar_inputs_de(Tail(elems), Put(data, inp.name, inp.value))
                       ELSE serializar_inputs_de(Tail(elems), data)
                  ELSE serializar_inputs_de(Tail(elems), Put(data, inp.name, inp.value))

serializar_inputs(form) == serializar_inputs_de(form, EmptyDict)

\* sel.find("option", selected=True) or sel.find("option")
OptionValue(options) ==
    IF options = <<>> THEN <<>>
    ELSE IF \E i \in 1..Len(options) : options[i].selected
         THEN options[CHOOSE i \in 1..Len(options) :
                         /\ options[i].selected
                         /\ \A j \in 1..(i - 1) : ~options[j].selected].value
         ELSE options[1].value

RECURSIVE serializar_selects_de(_, _)
serializar_selects_de(elems, data) ==
    IF elems = <<>> THEN data
    ELSE LET sel == Head(elems)
         IN  IF sel.tag /= "select" \/ sel.name = ""
             THEN serializar_selects_de(Tail(elems), data)
             ELSE serializar_selects_de(Tail(elems),
                                        Put(data, sel.name, OptionValue(sel.options)))

serializar_selects(form) == serializar_selects_de(form, EmptyDict)

RECURSIVE serializar_textareas_de(_, _)
serializar_textareas_de(elems, data) ==
    IF elems = <<>> THEN data
    ELSE LET ta == Head(elems)
         IN  IF ta.tag /= "textarea" \/ ta.name = ""
             THEN serializar_textareas_de(Tail(elems), data)
             ELSE serializar_textareas_de(Tail(elems), Put(data, ta.name, Strip(ta.value)))

serializar_textareas(form) == serializar_textareas_de(form, EmptyDict)

\* the radios of the form, by find_all("input", {"type": "radio"})
IsRadio(e) == e.tag = "input" /\ e.type = "radio" /\ e.name /= ""

processar_radios_nao_marcados(form, data) ==
    LET nomes == {form[i].name : i \in {j \in 1..Len(form) : IsRadio(form[j])}}
        primeiro(n) == form[CHOOSE i \in 1..Len(form) :
                               /\ IsRadio(form[i]) /\ form[i].name = n
                               /\ \A j \in 1..(i - 1) :
                                      ~(IsRadio(form[j]) /\ form[j].name = n)]
    IN  [x \in (DOMAIN data) \cup nomes |->
            IF x \in DOMAIN data THEN data[x] ELSE primeiro(x).value]

\* variant: the values of the inputs are not overridden by selects or textareas
serializar_formulario_inputsPorUltimo(form) ==
    processar_radios_nao_marcados(form,
        Update(Update(serializar_textareas(form), serializar_selects(form)),
               serializar_inputs(form)))

serializar_formulario(form) ==
    processar_radios_nao_marcados(form,
        Update(Update(serializar_inputs(form), serializar_selects(form)),
               serializar_textareas(form)))

----------------------------------------------------------------------------
(* Record Extractor *)

Grupos == <<"Recebidos", "Gerados">>

\* txt.replace("\xa0", " ")
ReplaceNbsp(s) == [i \in 1..Len(s) |-> IF s[i] = "nbsp" THEN " " ELSE s[i]]

\* re.sub(c \s+, c, s): whitespace after every c is removed
RECURSIVE DropWsAfter(_, _)
DropWsAfter(s, c) ==
    IF s = <<>> THEN <<>>
    ELSE IF Head(s) = c
         THEN <<c>> \o DropWsAfter(LStrip(Tail(s)), c)
         ELSE <<Head(s)>> \o DropWsAfter(Tail(s), c)

\* variant: one whitespace character at most is removed on each side of c
RECURSIVE DropWsAround_umEspaco(_, _)
DropWsAround_umEspaco(s, c) ==
    IF s = <<>> THEN <<>>
    ELSE IF IsSpace(Head(s)) /\ Len(s) >= 2 /\ s[2] = c
         THEN DropWsAround_umEspaco(Tail(s), c)
         ELSE IF Head(s) = c
              THEN <<c>> \o DropWsAround_umEspaco(
                               IF Len(s) >= 2 /\ IsSpace(s[2]) THEN Tail(Tail(s))
                               ELSE Tail(s), c)
              ELSE <<Head(s)>> \o DropWsAround_umEspaco(Tail(s), c)

\* re.sub(\s* c \s*, c, s): whitespace on both sides of every c is removed
RECURSIVE DropWsAround(_, _)
DropWsAround(s, c) ==
    IF s = <<>> THEN <<>>
    ELSE IF IsSpace(Head(s))
         THEN LET r == LStrip(s)
              IN  IF r /= <<>> /\ Head(r) = c
                  THEN DropWsAround(r, c)
                  ELSE SubSeq(s, 1, Len(s) - Len(r)) \o DropWsAround(r, c)
         ELSE IF Head(s) = c
              THEN <<c>> \o DropWsAround(LStrip(Tail(s)), c)
              ELSE <<Head(s)>> \o DropWsAround(Tail(s), c)

canonizar_processo(txt) ==
    Strip(DropWsAround(DropWsAround(DropWsAfter(ReplaceNbsp(txt), "."), "/"), "-"))

\* a row yields <<>> (None) or a one-record sequence: None when the process
\* link is missing, when no text of the link matches RE_PROCESSO, and when a
\* statement of the try block raises (the except clause of line 628)
extrair_processo_da_linha(linha, categoria) ==
    IF ~linha.link THEN <<>>
    ELSE IF linha.numero = <<>> THEN <<>>
    ELSE IF linha.levanta THEN <<>>
    ELSE <<[numero_processo |-> canonizar_processo(linha.numero),
            id_procedimento |-> linha.id,
            categoria |-> categoria,
            titulo |-> linha.titulo]>>

\* the loop body of extrair_processos: keep a row's record when it has an
\* id_procedimento that no earlier row of the page had
ManterLinha(proc, processos_ids) ==
    proc /= <<>> /\ proc[1].id_procedimento /= <<>>
                 /\ proc[1].id_procedimento \notin processos_ids

\* variant: the loop over the rows ends at the first row that yields nothing
RECURSIVE extrair_linhas_paraNaFalha(_, _, _)
extrair_linhas_paraNaFalha(linhas, categoria, acc) ==
    IF linhas = <<>> THEN acc
    ELSE LET proc == extrair_processo_da_linha(Head(linhas), categoria)
             ids == {acc[i].id_procedimento : i \in 1..Len(acc)}
         IN  IF proc = <<>> THEN acc
             ELSE extrair_linhas_paraNaFalha(Tail(linhas), categoria,
                                             IF ManterLinha(proc, ids) THEN acc \o proc
                                             ELSE acc)

\* the for loop over the rows of one table
RECURSIVE extrair_linhas(_, _, _)
extrair_linhas(linhas, categoria, acc) ==
    IF linhas = <<>> THEN acc
    ELSE LET proc == extrair_processo_da_linha(Head(linhas), categoria)
             ids == {acc[i].id_procedimento : i \in 1..Len(acc)}
         IN  extrair_linhas(Tail(linhas), categoria,
                            IF ManterLinha(proc, ids) THEN acc \o proc ELSE acc)

extrair_processos(html) ==
    LET recebidos == IF html.Recebidos.tabela
                     THEN extrair_linhas(html.Recebidos.linhas, "Recebidos", <<>>)
                     ELSE <<>>
    IN  IF html.Gerados.tabela
        THEN extrair_linhas(html.Gerados.linhas, "Gerados", recebidos)
        ELSE recebidos

----------------------------------------------------------------------------
(* Aggregator *)

\* proc.id_procedimento or proc.numero_processo
Chave(proc) == IF proc.id_procedimento /= <<>> THEN proc.id_procedimento
               ELSE proc.numero_processo

\* variant: the set of keys already seen is not consulted
Aceita_semVistos(chave, vistos) == chave /= <<>>

\* the test of _adicionar_processos: chave and chave not in vistos
Aceita(chave, vistos) == chave /= <<>> /\ chave \notin vistos

RECURSIVE _adicionar_processos(_, _)
_adicionar_processos(destino, novos) ==
    IF novos = <<>> THEN destino
    ELSE LET vistos == {Chave(destino[i]) : i \in 1..Len(destino)}
             processo == Head(novos)
         IN  _adicionar_processos(
                 IF Aceita(Chave(processo), vistos)
                 THEN Append(destino, processo) ELSE destino,
                 Tail(novos))

----------------------------------------------------------------------------
(* Pagination Controller *)

\* end of the run of digits that starts at i
RECURSIVE DigitRunEnd(_, _)
DigitRunEnd(s, i) == IF i < Len(s) /\ IsDigit(s[i + 1]) THEN DigitRunEnd(s, i + 1) ELSE i

\* first position at or after i that holds no whitespace (Len(s) + 1 if none)
RECURSIVE SkipWs(_, _)
SkipWs(s, i) == IF i <= Len(s) /\ IsSpace(s[i]) THEN SkipWs(s, i + 1) ELSE i

\* (\d+)\s+registros matches at i
MatchTotalAt(s, i) ==
    /\ IsDigit(s[i])
    /\ LET e == DigitRunEnd(s, i)
           k == SkipWs(s, e + 1)
       IN  k > e + 1 /\ k <= Len(s) /\ s[k] = "registros"

\* -\s*(\d+)\s*a\s*(\d+) matches at i
MatchIntervaloAt(s, i) ==
    /\ s[i] = "-"
    /\ LET a == SkipWs(s, i + 1)
       IN  /\ a <= Len(s) /\ IsDigit(s[a])
           /\ LET b == SkipWs(s, DigitRunEnd(s, a) + 1)
              IN  /\ b <= Len(s) /\ s[b] = "a"
                  /\ LET c == SkipWs(s, b + 1)
                     IN  c <= Len(s) /\ IsDigit(s[c])

First(S) == CHOOSE i \in S : \A j \in S : i <= j

\* returns <<total_registros, itens_por_pagina>>
_parse_caption_info(texto) ==
    LET mt == {i \in 1..Len(texto) : MatchTotalAt(texto, i)}
        mi == {i \in 1..Len(texto) : MatchIntervaloAt(texto, i)}
        total_registros ==
            IF mt = {} THEN 0
            ELSE DigitsVal(SubSeq(texto, First(mt), DigitRunEnd(texto, First(mt))))
        itens_intervalo ==
            IF mi = {} THEN 0
            ELSE LET a == SkipWs(texto, First(mi) + 1)
                     ae == DigitRunEnd(texto, a)
                     c == SkipWs(texto, SkipWs(texto, ae + 1) + 1)
                     inicio == DigitsVal(SubSeq(texto, a, ae))
                     fim == DigitsVal(SubSeq(texto, c, DigitRunEnd(texto, c)))
                 IN  Max(0, fim - inicio + 1)
        itens_por_pagina ==
            IF itens_intervalo = 0 /\ total_registros /= 0
            THEN total_registros ELSE itens_intervalo
    IN  <<total_registros, itens_por_pagina>>

\* _get_attr_str(soup.select_one("#" + id), "value"): <<>> when there is no
\* such element or its value is empty
ValorPorId(html, id) ==
    LET S == {i \in 1..Len(html.elems) : html.elems[i].id = id}
    IN  IF S = {} THEN <<>> ELSE html.elems[First(S)].value

\* len([item for item in valor.split(",") if item])
RECURSIVE ContaItens(_, _)
ContaItens(s, dentro) ==
    IF s = <<>> THEN 0
    ELSE IF Head(s) = "," THEN ContaItens(Tail(s), FALSE)
         ELSE (IF dentro THEN 0 ELSE 1) + ContaItens(Tail(s), TRUE)

\* variant: the quotient is rounded down
Ceil_piso(a, b) == a \div b

\* math.ceil(a / b) for a >= 0, b >= 1
Ceil(a, b) == (a + b - 1) \div b

\* max(1, math.ceil(total_registros / itens_por_pagina)) if itens_por_pagina else 1
TotalPaginas(total_registros, itens_por_pagina) ==
    IF itens_por_pagina /= 0 THEN Max(1, Ceil(total_registros, itens_por_pagina)) ELSE 1

\* variant: the hidden item-count field is consulted before the rendered rows
PaginacaoDoGrupo_ocultoPrimeiro(html, g) ==
    LET tabela == html[g]
        cap == IF tabela.tabela /\ tabela.temCaption
               THEN _parse_caption_info(tabela.caption) ELSE <<0, 0>>
        nlinhas == IF tabela.tabela THEN Len(tabela.linhas) ELSE 0
        valor_nro == ValorPorId(html, "hdn" \o g \o "NroItens")
        itens1 == IF valor_nro /= <<>> /\ IntOk(valor_nro) /\ cap[2] <= 0
                  THEN IntVal(valor_nro) ELSE cap[2]
        itens2 == IF itens1 <= 0 /\ nlinhas > 0 THEN nlinhas ELSE itens1
        total1 == IF cap[1] <= 0 /\ nlinhas > 0 THEN nlinhas ELSE cap[1]
        valor_itens == ValorPorId(html, "hdn" \o g \o "Itens")
        total2 == IF total1 <= 0 /\ valor_itens /= <<>>
                  THEN ContaItens(valor_itens, FALSE) ELSE total1
        valor_pagina == ValorPorId(html, "hdn" \o g \o "PaginaAtual")
        pagina_atual == IF valor_pagina /= <<>> /\ IntOk(valor_pagina)
                        THEN IntVal(valor_pagina) ELSE 0
        itens3 == IF itens2 <= 0
                  THEN Max(1, IF total2 /= 0 THEN total2 ELSE 1) ELSE itens2
    IN  [total_registros |-> total2,
         pagina_atual |-> pagina_atual,
         total_paginas |-> TotalPaginas(total2, itens3),
         itens_por_pagina |-> itens3]

\* one iteration of the loop over the groups in obter_paginacao_info
PaginacaoDoGrupo(html, g) ==
    LET tabela == html[g]
        cap == IF tabela.tabela /\ tabela.temCaption
               THEN _parse_caption_info(tabela.caption) ELSE <<0, 0>>
        nlinhas == IF tabela.tabela THEN Len(tabela.linhas) ELSE 0
        itens1 == IF cap[2] <= 0 /\ nlinhas > 0 THEN nlinhas ELSE cap[2]
        total1 == IF cap[1] <= 0 /\ nlinhas > 0 THEN nlinhas ELSE cap[1]
        valor_nro == ValorPorId(html, "hdn" \o g \o "NroItens")
        itens2 == IF valor_nro /= <<>> /\ IntOk(valor_nro) /\ itens1 <= 0
                  THEN IntVal(valor_nro) ELSE itens1
        valor_itens == ValorPorId(html, "hdn" \o g \o "Itens")
        total2 == IF total1 <= 0 /\ valor_itens /= <<>>
                  THEN ContaItens(valor_itens, FALSE) ELSE total1
        valor_pagina == ValorPorId(html, "hdn" \o g \o "PaginaAtual")
        pagina_atual == IF valor_pagina /= <<>> /\ IntOk(valor_pagina)
                        THEN IntVal(valor_pagina) ELSE 0
        itens3 == IF itens2 <= 0
                  THEN Max(1, IF total2 /= 0 THEN total2 ELSE 1) ELSE itens2
    IN  [total_registros |-> total2,
         pagina_atual |-> pagina_atual,
         total_paginas |-> TotalPaginas(total2, itens3),
         itens_por_pagina |-> itens3]

obter_paginacao_info(html) ==
    [g \in {"Recebidos", "Gerados"} |-> PaginacaoDoGrupo(html, g)]

\* the three field names submeter_paginacao derives from the group label
select_superior(g) == "sel" \o g \o "PaginacaoSuperior"
select_inferior(g) == "sel" \o g \o "PaginacaoInferior"
hidden_pagina(g) == "hdn" \o g \o "PaginaAtual"

\* variant: the hidden current-page fields of both groups get the target index
CamposAlvo_ambos(g, data) ==
    ({select_superior(g), select_inferior(g), "hdnRecebidosPaginaAtual",
      "hdnGeradosPaginaAtual"} \cap DOMAIN data) \cup {hidden_pagina(g)}

\* the fields submeter_paginacao assigns the target index to
CamposAlvo(g, data) ==
    ({select_superior(g), select_inferior(g)} \cap DOMAIN data) \cup {hidden_pagina(g)}

\* variant: the hidden current-page field is assigned without being looked for
PrepararPaginacao_semVerificar(html_atual, g, pagina_destino) ==
    IF ~html_atual.temForm
    THEN [ok |-> FALSE, motivo |-> "formulario_nao_encontrado", data |-> EmptyDict]
    ELSE [ok |-> TRUE, motivo |-> "",
          data |-> Put(serializar_formulario(html_atual.elems), hidden_pagina(g),
                       ToStr(pagina_destino))]

\* the part of submeter_paginacao before the POST: the payload, or the
\* SEIProcessoError it raises
PrepararPaginacao(html_atual, g, pagina_destino) ==
    IF ~html_atual.temForm
    THEN [ok |-> FALSE, motivo |-> "formulario_nao_encontrado", data |-> EmptyDict]
    ELSE LET data == serializar_formulario(html_atual.elems)
             alvo == ToStr(pagina_destino)
         IN  IF hidden_pagina(g) \in DOMAIN data
             THEN [ok |-> TRUE, motivo |-> "",
                   data |-> [x \in DOMAIN data |->
                                IF x \in CamposAlvo(g, data) THEN alvo ELSE data[x]]]
             ELSE [ok |-> FALSE, motivo |-> "paginacao_indisponivel",
                   data |-> EmptyDict]

----------------------------------------------------------------------------
(* Auth Flow: classification of the login response *)

\* pieces of text a response body may hold; a body is a set of them
LinkControle == "<a href='controlador.php?acao=procedimento_controlar'>"

Marcas == {"Sair", "sair", "Controle de Processos", "controle de processos",
           "Usuário ou Senha", "INVAL", "inval", "Bloqueado", "bloqueio",
           LinkControle}

\* str.lower() of one piece
LowerMarca(m) ==
    CASE m = "Sair" -> "sair"
      [] m = "Controle de Processos" -> "controle de processos"
      [] m = "Usuário ou Senha" -> "usuário ou senha"
      [] m = "INVAL" -> "inval"
      [] m = "Bloqueado" -> "bloqueado"
      [] OTHER -> m

\* response.text.lower()
Lowered(text) == {LowerMarca(m) : m \in text}

\* needle in text (substring search over the pieces)
In(needle, text) ==
    \E m \in text : m = needle \/ (m = LinkControle /\ needle = "procedimento_controlar")

\* variant: the failure markers are searched in response.text as it came
ClassificarLogin_semLower(text) ==
    IF In("Sair", text) \/ In("Controle de Processos", text) THEN "ok"
    ELSE IF In("usuário ou senha", text) \/ In("inval", text)
         THEN "Credenciais inválidas."
         ELSE IF In("bloqueado", text) \/ In("bloqueio", text)
              THEN "Conta bloqueada."
              ELSE "Login não confirmado - verifique credenciais."

\* lines 302-309 of login_sei: "ok" or the message of the SEILoginError
ClassificarLogin(text) ==
    IF In("Sair", text) \/ In("Controle de Processos", text) THEN "ok"
    ELSE LET lowered == Lowered(text)
         IN  IF In("usuário ou senha", lowered) \/ In("inval", lowered)
             THEN "Credenciais inválidas."
             ELSE IF In("bloqueado", lowered) \/ In("bloqueio", lowered)
                  THEN "Conta bloqueada."
                  ELSE "Login não confirmado - verifique credenciais."

\* the URL abrir_controle requests: the link found in the page or the default
UrlControle(text) ==
    IF LinkControle \in text THEN "controlador.php?acao=procedimento_controlar (link)"
    ELSE "/sei/controlador.php?acao=procedimento_controlar"

\* the response bodies of the login POST
CorposLogin == {b \in SUBSET Marcas : Cardinality(b) <= MaxMarcas}

----------------------------------------------------------------------------
(* Unit Context Switcher *)

\* returns [atual, url]: <<>> for None, "" for no switch URL
obter_unidade_atual(html) ==
    IF ~html.lnkUnidade THEN [atual |-> <<>>, url |-> ""]
    ELSE [atual |-> Strip(html.unidadeTexto),
          url |-> IF html.onclickUrl THEN "controlador.php?acao=infra_trocar_unidade"
                  ELSE ""]

\* variant: the names are compared as they are written
UnidadeDifere_exata(unidade_alvo, unidade_atual) == unidade_alvo /= unidade_atual

\* the test of line 933 of executar_listagem
UnidadeDifere(unidade_alvo, unidade_atual) ==
    Upper(Strip(unidade_alvo)) /= Upper(Strip(unidade_atual))

\* variant: the names are compared in the case they are written in
NormalizarUnidade_semUpper(nome) == Strip(CollapseWs(Strip(nome)))

\* re.sub(r"\s+", " ", nome.strip().upper()).strip()
NormalizarUnidade(nome) == Strip(CollapseWs(Upper(Strip(nome))))

\* the rows of the unit table that select the wanted unit: matching name,
\* a radio button and a value for it
LinhaServe(linha, unidade_desejada) ==
    /\ ~linha.th
    /\ linha.celulas >= 2
    /\ NormalizarUnidade(linha.texto) = NormalizarUnidade(unidade_desejada)
    /\ linha.radio
    /\ linha.valor /= <<>>

\* the part of selecionar_unidade_sei before the POST: the payload, or the
\* reason it returns (False, None)
PrepararSelecao(html_selecao_, unidade_desejada) ==
    IF html_selecao_.tabela = "nenhuma"
    THEN [ok |-> FALSE, motivo |-> "tabela_nao_encontrada", data |-> EmptyDict]
    ELSE LET S == {i \in 1..Len(html_selecao_.linhas) :
                      LinhaServe(html_selecao_.linhas[i], unidade_desejada)}
         IN  IF S = {}
             THEN [ok |-> FALSE, motivo |-> "unidade_nao_encontrada", data |-> EmptyDict]
             ELSE IF ~html_selecao_.temForm
                  THEN [ok |-> FALSE, motivo |-> "formulario_nao_encontrado",
                        data |-> EmptyDict]
                  ELSE LET valor_unidade == html_selecao_.linhas[First(S)].valor
                       IN  [ok |-> TRUE, motivo |-> "",
                            data |-> Put(Put(serializar_formulario(html_selecao_.elems),
                                             "selInfraUnidades", valor_unidade),
                                         "chkInfraItem", valor_unidade)]

\* line 463 of selecionar_unidade_sei
TrocaBemSucedida(text) ==
    In("Controle de Processos", text) \/ In("procedimento_controlar", text)

----------------------------------------------------------------------------
(* The portal's pages: the bounded set of responses the environment serves *)

Hidden(n, v) == [tag |-> "input", type |-> "hidden", id |-> n, name |-> n,
                 value |-> v, checked |-> FALSE, options |-> <<>>]

\* an element that has the id but no name: found by "#id", not submitted
SemNome(n, v) == [Hidden(n, v) EXCEPT !.name = ""]

Select(n, v) == [tag |-> "select", type |-> "", id |-> n, name |-> n,
                 value |-> <<>>, checked |-> FALSE,
                 options |-> <<[value |-> <<"0">>, selected |-> FALSE],
                               [value |-> v, selected |-> TRUE]>>]

\* the paging controls of one group, at page index v
CamposDoGrupo(g, v) ==
    <<Hidden("hdn" \o g \o "PaginaAtual", v),
      Select("sel" \o g \o "PaginacaoSuperior", v),
      Select("sel" \o g \o "PaginacaoInferior", v)>>

Token(t) == <<Hidden("hdnInfraToken", t)>>

Linha(id, numero, titulo) ==
    [link |-> TRUE, numero |-> numero, id |-> id, titulo |-> titulo, levanta |-> FALSE]

LinhaSemLink == [link |-> FALSE, numero |-> <<>>, id |-> <<>>, titulo |-> "",
                 levanta |-> FALSE]

\* a row whose link has an href urljoin() rejects with ValueError, such as
\* "a://[b?acao=procedimento_trabalhar"
LinhaQueLevanta(numero, titulo) ==
    [link |-> TRUE, numero |-> numero, id |-> <<>>, titulo |-> titulo, levanta |-> TRUE]

Numero(i) == <<"2024", ".", "01", ".", ToStr(i)[1], "/", "2024", "-", "01">>

\* the same number as the portal sometimes renders it
NumeroSolto(i) == <<"2024", ".", " ", "01", ".", ToStr(i)[1], " ", "/", " ", "2024", "-", "01">>

Id(i) == <<"id", ToStr(i)[1]>>

\* "<total> registros - <inicio> a <fim>"
Caption(total, inicio, fim) ==
    <<"Lista", " ", "(">> \o ToStr(total) \o <<" ", "registros", " ", "-", " ">>
        \o ToStr(inicio) \o <<" ", "a", " ">> \o ToStr(fim) \o <<")">>

Tabela(caption, linhas) ==
    [tabela |-> TRUE, temCaption |-> caption /= <<>>, caption |-> caption,
     linhas |-> linhas]

SemTabela == [tabela |-> FALSE, temCaption |-> FALSE, caption |-> <<>>, linhas |-> <<>>]

Pagina(nome, lnk, texto, onclick, temForm, elems, recebidos, gerados) ==
    [nome |-> nome, lnkUnidade |-> lnk, unidadeTexto |-> texto, onclickUrl |-> onclick,
     temForm |-> temForm, elems |-> elems, Recebidos |-> recebidos, Gerados |-> gerados]

SemPagina == [nome |-> ""]

UnidadeSA == <<"S", "/", "A">>

\* the control pages the portal serves for "acao=procedimento_controlar"
PaginasControle == {
    \* the wanted unit is active; 3 pages of Recebidos, 2 of Gerados
    Pagina("c_a", TRUE, <<"s", "/", "a">>, TRUE, TRUE,
           Token(<<"t", "0">>) \o CamposDoGrupo("Recebidos", <<"0">>)
                               \o CamposDoGrupo("Gerados", <<"0">>),
           Tabela(Caption(3, 1, 1), <<Linha(Id(1), Numero(1), "a-r1")>>),
           Tabela(Caption(15, 1, 10), <<Linha(Id(2), Numero(2), "a-g1")>>)),
    \* one page of Recebidos with rows that carry no id_procedimento
    Pagina("c_b", TRUE, UnidadeSA, TRUE, TRUE,
           Token(<<"t", "0">>) \o CamposDoGrupo("Recebidos", <<"0">>),
           Tabela(<<>>, <<Linha(<<>>, NumeroSolto(1), "b-r1"), LinhaSemLink,
                          Linha(<<>>, Numero(2), "b-r2")>>),
           SemTabela),
    \* 2 pages of Recebidos, but the form lacks hdnRecebidosPaginaAtual
    Pagina("c_c", TRUE, UnidadeSA, TRUE, TRUE,
           Token(<<"t", "0">>) \o <<SemNome("hdnRecebidosPaginaAtual", <<"0">>)>>
                               \o CamposDoGrupo("Gerados", <<"0">>),
           Tabela(Caption(2, 1, 1), <<Linha(Id(1), Numero(1), "c-r1")>>),
           Tabela(Caption(2, 1, 1), <<Linha(Id(2), Numero(2), "c-g1")>>)),
    \* no paging controls of Recebidos at all; Gerados at page 1 of 3
    Pagina("c_d", TRUE, UnidadeSA, TRUE, TRUE,
           Token(<<"t", "0">>) \o CamposDoGrupo("Gerados", <<"1">>),
           Tabela(<<>>, <<Linha(Id(1), Numero(1), "d-r1")>>),
           Tabela(Caption(3, 2, 2), <<Linha(Id(1), Numero(1), "d-g1")>>)),
    \* another unit is active and the switch link is there; the empty table
    \* of Gerados comes with a current-page index of 1
    Pagina("c_e", TRUE, <<"A">>, TRUE, TRUE,
           Token(<<"t", "0">>) \o CamposDoGrupo("Recebidos", <<"0">>)
                               \o CamposDoGrupo("Gerados", <<"1">>),
           Tabela(Caption(2, 1, 1), <<Linha(Id(1), Numero(1), "e-r1")>>),
           Tabela(<<>>, <<>>)),
    \* another unit is active and the link has no redirect target
    Pagina("c_f", TRUE, <<"A">>, FALSE, TRUE,
           Token(<<"t", "0">>),
           Tabela(<<>>, <<Linha(Id(2), Numero(2), "f-r1")>>),
           SemTabela),
    \* no unit link, no form, yet 2 pages of Gerados announced
    Pagina("c_g", FALSE, <<>>, FALSE, FALSE,
           <<>>,
           SemTabela,
           Tabela(Caption(2, 1, 1), <<Linha(Id(1), Numero(1), "g-g1")>>)),
    \* the active unit is written with a space inside its name; 2 pages of
    \* Recebidos, and the row has no id_procedimento
    Pagina("c_h", TRUE, <<"S", " ", "/", "A">>, TRUE, TRUE,
           Token(<<"t", "0">>) \o CamposDoGrupo("Recebidos", <<"0">>),
           Tabela(Caption(2, 1, 1), <<Linha(<<>>, Numero(1), "h-r1")>>),
           SemTabela)
}

\* a page answering a page advance: one row of Recebidos with id i
PaginaAvanco(i) ==
    Pagina("p_" \o ToStr(i)[1], TRUE, UnidadeSA, TRUE, TRUE,
           Token(<<"t", ToStr(i)[1]>>) \o CamposDoGrupo("Recebidos", ToStr(i))
                                       \o CamposDoGrupo("Gerados", ToStr(i)),
           Tabela(<<>>, <<Linha(Id(i), Numero(i), "p-r" \o ToStr(i)[1])>>),
           Tabela(<<>>, <<Linha(Id(i), Numero(i), "p-g" \o ToStr(i)[1])>>))

\* the pages the portal serves in answer to a page-advance POST
PaginasAvanco ==
    {PaginaAvanco(i) : i \in 1..NumIds} \cup {
    \* rows without id_procedimento, and a form without Gerados' hidden field
    Pagina("p_x", TRUE, UnidadeSA, TRUE, TRUE,
           Token(<<"t", "x">>) \o CamposDoGrupo("Recebidos", <<"1">>),
           Tabela(<<>>, <<Linha(<<>>, Numero(1), "x-r1"), Linha(<<>>, Numero(2), "x-r2")>>),
           SemTabela),
    \* no form at all
    Pagina("p_y", TRUE, UnidadeSA, TRUE, FALSE,
           <<>>,
           Tabela(<<>>, <<Linha(Id(2), Numero(2), "y-r1")>>),
           SemTabela)
    }

LinhaUnidade(texto, radio, valor) ==
    [th |-> FALSE, celulas |-> 2, texto |-> texto, radio |-> radio, valor |-> valor]

Selecao(nome, tabela, linhas, temForm) ==
    [nome |-> nome, tabela |-> tabela, linhas |-> linhas, temForm |-> temForm,
     elems |-> <<Hidden("hdnInfraToken", <<"t", "s">>)>>]

\* the unit-selection pages the portal serves
PaginasSelecao == {
    Selecao("s_ok", "infraTable",
            <<[LinhaUnidade(<<>>, FALSE, <<>>) EXCEPT !.th = TRUE],
              LinhaUnidade(<<"A">>, TRUE, <<"1", "0">>),
              LinhaUnidade(<<"s", "/", " ", "a">>, TRUE, <<"1", "1">>),
              LinhaUnidade(<<" ", "s", "/", "a">>, TRUE, <<"1", "2">>)>>,
            TRUE),
    Selecao("s_sem_tabela", "nenhuma", <<>>, TRUE),
    Selecao("s_sem_linha", "caption", <<LinhaUnidade(<<"A">>, TRUE, <<"1", "0">>)>>, TRUE),
    Selecao("s_sem_radio", "infraTable",
            <<LinhaUnidade(UnidadeSA, FALSE, <<>>), LinhaUnidade(UnidadeSA, TRUE, <<>>)>>,
            TRUE),
    Selecao("s_sem_form", "infraTable", <<LinhaUnidade(UnidadeSA, TRUE, <<"1", "1">>)>>,
            FALSE)
}

\* the response bodies of the unit-selection POST
CorposTroca == {{}, {"Controle de Processos"}, {LinkControle}, {"INVAL"}}

\* os.environ as the run finds it
Ambientes ==
    [SEI_ORGAO : {<<>>, <<"2", "8">>},
     SEI_UNIDADE : {<<" ">>, UnidadeSA, <<"s", "/", "a", " ">>},
     SEI_USER : {<<>>, <<" ">>, <<"u">>},
     SEI_PASS : {<<>>, <<" ">>, <<"p">>}]

----------------------------------------------------------------------------
(* The run: main() and executar_listagem() *)

\* no request is being transmitted
TxOcioso == [estado |-> "ocioso", metodo |-> "", politica |-> "", enviados |-> 0,
             total |-> 0, connect |-> 0, read |-> 0, ultimo |-> ""]

\* no exception is pending; causa is the __cause__ of a "raise ... from exc"
SemErro == [tipo |-> "", msg |-> "", causa |-> ""]

Erro(tipo, msg) == [tipo |-> tipo, msg |-> msg, causa |-> ""]

\* one entry of the log: a request sent to the portal, or ("extrair") a page
\* handed to extrair_processos
Ev(ev, g, destino, data, html, resp) ==
    [ev |-> ev, grupo |-> g, destino |-> destino, data |-> data, html |-> html,
     resp |-> resp]

Req(ev) == Ev(ev, "", -1, EmptyDict, SemPagina, SemPagina)

\* class SEIError and its subclasses
EhSEIError(tipo) ==
    tipo \in {"SEIError", "SEIConfigError", "SEILoginError", "SEIProcessoError"}

\* variant: the handler of Exception comes before the handler of SEIError
CodigoDeSaida_generico(tipo) ==
    IF tipo = "" THEN 0
    ELSE IF tipo = "KeyboardInterrupt" THEN 130
    ELSE 99

\* the try/except chain of main(): the exit code for the way the run ended
CodigoDeSaida(tipo) ==
    IF tipo = "" THEN 0
    ELSE IF EhSEIError(tipo) THEN 10
    ELSE IF tipo = "KeyboardInterrupt" THEN 130
    ELSE 99

\* variant: the failure is swallowed and the run goes on to the export
AoLevantar_segue(dentro_do_try) == IF dentro_do_try THEN "exportar" ELSE "main_except"

\* variant: the session is closed on the success path only (no finally clause)
AoLevantar_semFinally(dentro_do_try) == "main_except"

\* where control goes when the listing raises: the finally clause when the
\* try block has been entered, main()'s handlers otherwise
AoLevantar(dentro_do_try) == IF dentro_do_try THEN "finally" ELSE "main_except"

\* variant: the records are collected before the unit is looked at
Seguinte_coletaAntes(passo) ==
    CASE passo = "abrir_controle" -> "coletar"
      [] passo = "coleta" -> "unidade"
      [] passo = "troca" -> "exportar"
      [] passo = "exportar" -> "finally"

\* the order of the statements of executar_listagem's try block: the step
\* that follows the opening of the control screen, the unit-switch block,
\* the collection and the export
Seguinte(passo) ==
    CASE passo = "abrir_controle" -> "unidade"
      [] passo = "troca" -> "coletar"
      [] passo = "coleta" -> "exportar"
      [] passo = "exportar" -> "finally"

\* variant: the control screen is loaded again whatever the switch returned
ProximoAposTroca_sempreRecarrega(sucesso, html_resultado) == "recarregar_controle"

\* variant: the run goes on with the page it has, whatever the switch returned
ProximoAposTroca_nuncaRecarrega(sucesso, html_resultado) == "coletar"

\* lines 946-953: the control screen is loaded again after a switch that
\* succeeded and returned a page; otherwise the run goes on as it is
ProximoAposTroca(sucesso, html_resultado) ==
    IF sucesso /\ html_resultado /= {} THEN "recarregar_controle" ELSE Seguinte("troca")

\* positions inside the try block of executar_listagem
PassosTry == {"login_get", "login_post", "abrir_controle", "unidade", "sel_get",
              "selecionar", "recarregar_controle", "coletar", "paginar", "exportar"}

\* positions of executar_listagem before the session exists
PassosAntes == {"load_settings", "create_session"}

Init ==
    /\ pc = "load_settings"
    /\ env \in Ambientes
    /\ session = "none"
    /\ closes = 0
    /\ html_login = {}
    /\ html_controle = SemPagina
    /\ controle_url = ""
    /\ unidade = [atual |-> <<>>, url |-> ""]
    /\ html_selecao = SemPagina
    /\ troca = [tentada |-> FALSE, sucesso |-> FALSE, html |-> {}, motivo |-> ""]
    /\ info_inicial = <<>>
    /\ grupo = ""
    /\ pagina = 0
    /\ html_grupo = SemPagina
    /\ processos = <<>>
    /\ ofertados = <<>>
    /\ log = <<>>
    /\ erro = SemErro
    /\ exportado = FALSE
    /\ exit_code = -1
    /\ tx = TxOcioso

\* raise: the exception leaves executar_listagem through the finally clause
Levantar(tipo, msg) ==
    /\ erro' = Erro(tipo, msg)
    /\ pc' = AoLevantar(pc \in PassosTry)

\* variant: no step catches requests.RequestException
ErroDeTransporte_semTratamento(passo) == "RequestException"

\* the "except requests.RequestException" clause of the function that sends
\* the request of a step: the class it raises in place of the transport error
\* (submeter_paginacao has no such clause: the error leaves as it is)
ErroDeTransporte(passo) ==
    CASE passo \in {"login_get", "login_post"} -> "SEILoginError"
      [] passo \in {"abrir_controle", "recarregar_controle", "sel_get", "selecionar"}
           -> "SEIProcessoError"
      [] OTHER -> "RequestException"

\* a request of the current step fails in transport (connection error,
\* timeout, or raise_for_status() on an error status)
FalhaDeTransporte(msg) ==
    /\ erro' = [tipo |-> ErroDeTransporte(pc), msg |-> msg,
                causa |-> IF ErroDeTransporte(pc) = "RequestException" THEN ""
                          ELSE "RequestException"]
    /\ pc' = AoLevantar(pc \in PassosTry)

\* settings.unidade_alvo
unidade_alvo == Strip(env.SEI_UNIDADE)

\* variant: the credentials are not tested before the session is created
CredencialAusente_semTeste(valor) == FALSE

\* "not user", "not password" (line 921): the variable is unset or empty
CredencialAusente(valor) == valor = <<>>

\* load_settings() and the SEI_USER/SEI_PASS test, lines 916-922
CarregarConfig ==
    /\ pc = "load_settings"
    /\ IF Strip(env.SEI_ORGAO) = <<>>
       THEN Levantar("SEIConfigError", "SEI_ORGAO")
       ELSE IF Strip(env.SEI_UNIDADE) = <<>>
            THEN Levantar("SEIConfigError", "SEI_UNIDADE")
            ELSE IF CredencialAusente(env.SEI_USER) \/ CredencialAusente(env.SEI_PASS)
                 THEN Levantar("SEIConfigError", "SEI_USER/SEI_PASS")
                 ELSE pc' = "create_session" /\ erro' = erro
    /\ UNCHANGED <<env, session, closes, html_login, html_controle, controle_url,
                   unidade, html_selecao, troca, info_inicial, grupo, pagina,
                   html_grupo, processos, ofertados, log, exportado, exit_code, tx>>

\* create_session(), line 924
CriarSessao ==
    /\ pc = "create_session"
    /\ session' = "open"
    /\ pc' = "login_get"
    /\ UNCHANGED <<env, closes, html_login, html_controle, controle_url,
                   unidade, html_selecao, troca, info_inicial, grupo, pagina,
                   html_grupo, processos, ofertados, log, erro, exportado, exit_code, tx>>

\* login_sei: the test of user and pwd (lines 276-277), then the GET of the
\* login page
LoginGet ==
    /\ pc = "login_get"
    /\ IF env.SEI_USER = <<>> \/ env.SEI_PASS = <<>>
       THEN /\ Levantar("SEILoginError", "Usuário e senha devem ser fornecidos")
            /\ log' = log
       ELSE /\ log' = Append(log, Req("login_get"))
            /\ \/ pc' = "login_post" /\ erro' = erro
               \/ FalhaDeTransporte("Erro de rede durante login")
    /\ UNCHANGED <<env, session, closes, html_login, html_controle, controle_url,
                   unidade, html_selecao, troca, info_inicial, grupo, pagina,
                   html_grupo, processos, ofertados, exportado, exit_code, tx>>

\* login_sei: POST of the credentials and classification of the answer
LoginPost ==
    /\ pc = "login_post"
    /\ log' = Append(log, Req("login_post"))
    /\ \/ \E text \in CorposLogin :
            /\ html_login' = text
            /\ IF ClassificarLogin(text) = "ok"
               THEN pc' = "abrir_controle" /\ erro' = erro
               ELSE Levantar("SEILoginError", ClassificarLogin(text))
       \/ html_login' = html_login
          /\ FalhaDeTransporte("Erro de rede durante login")
    /\ UNCHANGED <<env, session, closes, html_controle, controle_url,
                   unidade, html_selecao, troca, info_inicial, grupo, pagina,
                   html_grupo, processos, ofertados, exportado, exit_code, tx>>

\* abrir_controle(session, settings, html_pos_login), lines 927 and 948
AbrirControle(passo, html_pos_login, proximo) ==
    /\ pc = passo
    /\ \/ \E resp \in PaginasControle :
            /\ log' = Append(log, Ev("controle_get", "", -1, EmptyDict, SemPagina, resp))
            /\ html_controle' = resp
            /\ controle_url' = UrlControle(html_pos_login)
            /\ pc' = proximo
            /\ erro' = erro
       \/ /\ log' = Append(log, Req("controle_get"))
          /\ FalhaDeTransporte("Erro ao acessar controle de processos")
          /\ UNCHANGED <<html_controle, controle_url>>
    /\ html_login' = {}
    /\ troca' = [troca EXCEPT !.html = {}]
    /\ UNCHANGED <<env, session, closes, unidade, html_selecao, info_inicial,
                   grupo, pagina, html_grupo, processos, ofertados, exportado,
                   exit_code, tx>>

\* obter_unidade_atual and the test of line 933
VerificarUnidade ==
    /\ pc = "unidade"
    /\ unidade' = obter_unidade_atual(html_controle)
    /\ pc' = IF UnidadeDifere(unidade_alvo, unidade'.atual) /\ unidade'.url /= ""
             THEN "sel_get" ELSE Seguinte("troca")
    /\ UNCHANGED <<env, session, closes, html_login, html_controle, controle_url,
                   html_selecao, troca, info_inicial, grupo, pagina, html_grupo,
                   processos, ofertados, log, erro, exportado, exit_code, tx>>

\* carregar_pagina_selecao_unidades, line 942
CarregarSelecao ==
    /\ pc = "sel_get"
    /\ log' = Append(log, Req("sel_get"))
    /\ troca' = [troca EXCEPT !.tentada = TRUE]
    /\ \/ \E resp \in PaginasSelecao :
            html_selecao' = resp /\ pc' = "selecionar" /\ erro' = erro
       \/ /\ FalhaDeTransporte("Erro ao carregar página de seleção de unidades")
          /\ html_selecao' = html_selecao
    /\ UNCHANGED <<env, session, closes, html_login, html_controle, controle_url,
                   unidade, info_inicial, grupo, pagina, html_grupo, processos,
                   ofertados, exportado, exit_code, tx>>

\* selecionar_unidade_sei and the test of line 946
SelecionarUnidade ==
    /\ pc = "selecionar"
    /\ LET prep == PrepararSelecao(html_selecao, unidade_alvo)
       IN  \/ \* (False, None): nothing is submitted
              /\ ~prep.ok
              /\ pc' = ProximoAposTroca(FALSE, {})
              /\ troca' = [troca EXCEPT !.motivo = prep.motivo]
              /\ UNCHANGED <<log, erro>>
           \/ \* an unexpected exception inside the function: (False, None)
              /\ pc' = ProximoAposTroca(FALSE, {})
              /\ troca' = [troca EXCEPT !.motivo = "erro_inesperado"]
              /\ UNCHANGED <<log, erro>>
           \/ \* the form is submitted and the portal answers
              /\ prep.ok
              /\ log' = Append(log, Ev("sel_post", "", -1, prep.data, SemPagina, SemPagina))
              /\ \E text \in CorposTroca :
                    /\ troca' = [troca EXCEPT !.sucesso = TrocaBemSucedida(text),
                                               !.html = text,
                                               !.motivo = IF TrocaBemSucedida(text) THEN ""
                                                          ELSE "resposta_sem_marca"]
                    /\ pc' = ProximoAposTroca(TrocaBemSucedida(text), text)
              /\ erro' = erro
           \/ \* the submission fails in transport
              /\ prep.ok
              /\ log' = Append(log, Ev("sel_post", "", -1, prep.data, SemPagina, SemPagina))
              /\ FalhaDeTransporte("Erro de rede ao selecionar unidade SEI")
              /\ troca' = troca
    /\ UNCHANGED <<env, session, closes, html_login, html_controle, controle_url,
                   unidade, html_selecao, info_inicial, grupo, pagina, html_grupo,
                   processos, ofertados, exportado, exit_code, tx>>

\* variant: every group is requested again from index 0
PrimeiroDestino_zero(info) == 0

\* the first value of range(info.pagina_atual + 1, info.total_paginas)
PrimeiroDestino(info) == info.pagina_atual + 1

\* coletar_processos_com_paginacao, lines 808-821: the initial page
ColetarInicial ==
    /\ pc = "coletar"
    /\ info_inicial' = obter_paginacao_info(html_controle)
    /\ log' = Append(log, Ev("extrair", "", -1, EmptyDict, html_controle, SemPagina))
    /\ ofertados' = ofertados \o extrair_processos(html_controle)
    /\ processos' = _adicionar_processos(<<>>, extrair_processos(html_controle))
    /\ grupo' = "Recebidos"
    /\ html_grupo' = html_controle
    /\ pagina' = PrimeiroDestino(info_inicial'["Recebidos"])
    /\ pc' = "paginar"
    /\ UNCHANGED <<env, session, closes, html_login, html_controle, controle_url,
                   unidade, html_selecao, troca, erro, exportado, exit_code, tx>>

\* variant: the loop runs up to and including the index total_paginas
EmLaco_inclusivo == info_inicial[grupo].total_paginas > 1
                    /\ pagina <= info_inicial[grupo].total_paginas

\* the for loop of the running group has another iteration
EmLaco == info_inicial[grupo].total_paginas > 1
          /\ pagina < info_inicial[grupo].total_paginas

\* variant: the loop of Gerados goes on from the last page of Recebidos
HtmlInicialDoGrupo_continua(g, html_inicial, html_anterior) == html_anterior

\* the page the loop of group g starts from: html_receb = html_inicial,
\* html_ger = html_inicial
HtmlInicialDoGrupo(g, html_inicial, html_anterior) == html_inicial

\* one iteration of a group's loop: submeter_paginacao, extrair_processos,
\* _adicionar_processos
Paginar ==
    /\ pc = "paginar"
    /\ EmLaco
    /\ LET prep == PrepararPaginacao(html_grupo, grupo, pagina)
       IN  \/ /\ ~prep.ok
              /\ Levantar("SEIProcessoError", prep.motivo)
              /\ UNCHANGED <<log, html_grupo, processos, ofertados, pagina>>
           \/ /\ prep.ok
              /\ \E resp \in PaginasAvanco :
                    /\ log' = log \o <<Ev("pag_post", grupo, pagina, prep.data, html_grupo, resp),
                                       Ev("extrair", grupo, -1, EmptyDict, resp, SemPagina)>>
                    /\ html_grupo' = resp
                    /\ ofertados' = ofertados \o extrair_processos(resp)
                    /\ processos' = _adicionar_processos(processos, extrair_processos(resp))
              /\ pagina' = pagina + 1
              /\ UNCHANGED <<pc, erro>>
           \/ /\ prep.ok
              /\ log' = Append(log, Ev("pag_post", grupo, pagina, prep.data, html_grupo,
                                       SemPagina))
              /\ FalhaDeTransporte("page advance")
              /\ UNCHANGED <<html_grupo, processos, ofertados, pagina>>
    /\ UNCHANGED <<env, session, closes, html_login, html_controle, controle_url,
                   unidade, html_selecao, troca, info_inicial, grupo, exportado,
                   exit_code, tx>>

\* a group's loop is over: on to Gerados, or to the export
FimDoGrupo ==
    /\ pc = "paginar"
    /\ ~EmLaco
    /\ IF grupo = "Recebidos"
       THEN /\ grupo' = "Gerados"
            /\ html_grupo' = HtmlInicialDoGrupo("Gerados", html_controle, html_grupo)
            /\ pagina' = PrimeiroDestino(info_inicial["Gerados"])
            /\ pc' = pc
       ELSE /\ pc' = Seguinte("coleta")
            /\ UNCHANGED <<grupo, html_grupo, pagina>>
    /\ UNCHANGED <<env, session, closes, html_login, html_controle, controle_url,
                   unidade, html_selecao, troca, info_inicial, processos, ofertados,
                   log, erro, exportado, exit_code, tx>>

\* variant: an empty list is written to the workbook like any other
NadaParaExportar_nunca(lista) == FALSE

\* "if not processos" (line 848)
NadaParaExportar(lista) == lista = <<>>

\* exportar_processos_para_excel, line 956
Exportar ==
    /\ pc = "exportar"
    /\ \/ /\ NadaParaExportar(processos)
          /\ Levantar("SEIProcessoError", "Nenhum processo para exportar.")
          /\ exportado' = exportado
       \/ /\ ~NadaParaExportar(processos)
          /\ exportado' = TRUE
          /\ pc' = Seguinte("exportar")
          /\ erro' = erro
       \/ /\ ~NadaParaExportar(processos)
          /\ Levantar("OSError", "wb.save")
          /\ exportado' = exportado
    /\ UNCHANGED <<env, session, closes, html_login, html_controle, controle_url,
                   unidade, html_selecao, troca, info_inicial, grupo, pagina,
                   html_grupo, processos, ofertados, log, exit_code, tx>>

\* a user interrupt (KeyboardInterrupt) raised during any step of the listing
Interromper ==
    /\ pc \in PassosAntes \cup PassosTry
    /\ Levantar("KeyboardInterrupt", "")
    /\ UNCHANGED <<env, session, closes, html_login, html_controle, controle_url,
                   unidade, html_selecao, troca, info_inicial, grupo, pagina,
                   html_grupo, processos, ofertados, log, exportado, exit_code, tx>>

\* what the finally clause of executar_listagem does to the session
FecharSessao(s) == "closed"

\* finally: session.close(), line 960
Finally ==
    /\ pc = "finally"
    /\ session' = FecharSessao(session)
    /\ closes' = closes + 1
    /\ pc' = "main_except"
    /\ UNCHANGED <<env, html_login, html_controle, controle_url, unidade,
                   html_selecao, troca, info_inicial, grupo, pagina, html_grupo,
                   processos, ofertados, log, erro, exportado, exit_code, tx>>

\* main(): return 0, or the handler of the exception that came out
MainReturn ==
    /\ pc = "main_except"
    /\ exit_code' = CodigoDeSaida(erro.tipo)
    /\ pc' = "done"
    /\ UNCHANGED <<env, session, closes, html_login, html_controle, controle_url,
                   unidade, html_selecao, troca, info_inicial, grupo, pagina,
                   html_grupo, processos, ofertados, log, erro, exportado, tx>>

Next ==
    \/ CarregarConfig
    \/ CriarSessao
    \/ LoginGet
    \/ LoginPost
    \/ AbrirControle("abrir_controle", html_login, Seguinte("abrir_controle"))
    \/ VerificarUnidade
    \/ CarregarSelecao
    \/ SelecionarUnidade
    \/ AbrirControle("recarregar_controle", troca.html, Seguinte("troca"))
    \/ ColetarInicial
    \/ Paginar
    \/ FimDoGrupo
    \/ Exportar
    \/ Interromper
    \/ Finally
    \/ MainReturn

Spec == Init /\ [][Next]_vars

----------------------------------------------------------------------------
(* Properties *)

Terminou == pc \in {"main_except", "done"}

\* the log entries of one kind
Entradas(ev) == {i \in 1..Len(log) : log[i].ev = ev}

\* C1: once the HTTP session has been created it is closed exactly once
\* before executar_listagem returns or propagates, on every exit path
\* (success, AuthError, ListingError, unclassified exception, interrupt);
\* it is never closed twice, and never closed before it exists.
C1_SessaoFechadaUmaVez ==
    /\ closes <= 1
    /\ (session = "none") => (closes = 0)
    /\ (session = "open") => (closes = 0 /\ ~Terminou)
    /\ (session = "closed") => (closes = 1)
    /\ (Terminou /\ Len(log) > 0) => (session = "closed" /\ closes = 1)

\* C1 witness: a run interrupted by the user after requests were sent has
\* ended with its session closed once
C1_Witness ==
    /\ pc = "done" /\ erro.tipo = "KeyboardInterrupt"
    /\ Entradas("pag_post") /= {} /\ session = "closed" /\ closes = 1

\* C2: main returns one of 0, 10, 130, 99: 0 exactly when the listing
\* completed and the export was written, 10 for SEIConfigError,
\* SEILoginError and SEIProcessoError, 130 for KeyboardInterrupt, 99 for any
\* other exception; while the run lasts no code is returned.
C2_CodigosDeSaida ==
    /\ (pc /= "done") => (exit_code = -1)
    /\ (pc = "done") =>
          /\ exit_code \in {0, 10, 130, 99}
          /\ (exit_code = 0) <=> (exportado /\ erro.tipo = "")
          /\ (exit_code = 10) <=>
                (erro.tipo \in {"SEIConfigError", "SEILoginError", "SEIProcessoError"})
          /\ (exit_code = 130) <=> (erro.tipo = "KeyboardInterrupt")
          /\ (exit_code = 99) <=> (erro.tipo \in {"RequestException", "OSError"})

\* C2 witness: a run that ended in a listing error has returned 10
C2_Witness ==
    pc = "done" /\ erro.tipo = "SEIProcessoError" /\ exit_code = 10 /\ ~exportado

\* the markers of the login response, with every case variant the portal serves
TemSucesso(text) == text \cap {"Sair", "Controle de Processos"} /= {}
TemInvalido(text) == text \cap {"Usuário ou Senha", "INVAL", "inval"} /= {}
TemBloqueio(text) == text \cap {"Bloqueado", "bloqueio"} /= {}

\* the login POST was answered and login_sei has classified the answer
LoginRespondido ==
    /\ Entradas("login_post") /= {}
    /\ pc /= "login_post"
    /\ erro.msg /= "Erro de rede durante login"
    /\ Entradas("controle_get") = {}

\* C3: a login response with a success marker authenticates, even with
\* failure markers beside it; otherwise an invalid-credentials marker in any
\* case raises the invalid-credentials error, otherwise a lockout marker the
\* locked-account error, otherwise the "not confirmed" error; every such
\* error ends the run with exit code 10.
C3_ClassificacaoDoLogin ==
    /\ LoginRespondido =>
          /\ TemSucesso(html_login) => erro.tipo /= "SEILoginError"
          /\ (~TemSucesso(html_login)) =>
                /\ erro.tipo = "SEILoginError"
                /\ erro.msg =
                      (IF TemInvalido(html_login) THEN "Credenciais inválidas."
                       ELSE IF TemBloqueio(html_login) THEN "Conta bloqueada."
                       ELSE "Login não confirmado - verifique credenciais.")
    /\ (pc = "done" /\ erro.tipo = "SEILoginError") => (exit_code = 10)

\* C3 witness: a response with an upper-case invalid-credentials marker and
\* a lockout marker, and no success marker, has ended the run with 10
C3_Witness ==
    /\ pc = "done" /\ LoginRespondido
    /\ html_login = {"INVAL", "Bloqueado"}
    /\ erro = Erro("SEILoginError", "Credenciais inválidas.")
    /\ exit_code = 10

Ultimo(S) == CHOOSE i \in S : \A j \in S : j <= i

\* the unit switch was attempted and did not succeed, and the run is over
\* for a reason other than a user interrupt
TrocaFalhouEAcabou ==
    troca.tentada /\ ~troca.sucesso /\ Terminou /\ erro.tipo /= "KeyboardInterrupt"

FalhaDeTransporteNaTroca ==
    erro.msg \in {"Erro ao carregar página de seleção de unidades",
                  "Erro de rede ao selecionar unidade SEI"}

\* the run went on to collect from the control page it had fetched before
\* the switch attempt, and fetched no other
ColetouDaPaginaAnterior ==
    /\ Cardinality(Entradas("controle_get")) = 1
    /\ Entradas("extrair") /= {}
    /\ \A i \in Entradas("extrair") : \A j \in Entradas("controle_get") :
          (\A k \in Entradas("extrair") : i <= k) => log[i].html = log[j].resp

\* C4 as stated: every unit-switch failure, a failure while fetching or
\* submitting the unit-selection page included, lets the run go on to
\* collect records.
C4_TodaFalhaNaoFatal == TrocaFalhouEAcabou => ColetouDaPaginaAnterior

\* C4 amended: a unit switch that fails without a transport failure (no
\* table, no matching row, no radio value, no form, an unexpected error, an
\* answer without the success markers) lets the run go on to collect from
\* the control page of the active unit; a transport failure while fetching
\* or submitting the unit-selection page raises SEIProcessoError, nothing is
\* collected and the run ends with exit code 10.
C4_FalhaSemTransporteNaoFatal ==
    /\ (TrocaFalhouEAcabou /\ ~FalhaDeTransporteNaTroca) => ColetouDaPaginaAnterior
    /\ FalhaDeTransporteNaTroca =>
          /\ erro.tipo = "SEIProcessoError"
          /\ Entradas("extrair") = {}
          /\ (pc = "done") => (exit_code = 10)

\* C4 witness: the selection form was submitted, the answer had no success
\* marker, and the run went on and exported
C4_Witness ==
    /\ pc = "done" /\ troca.tentada /\ ~troca.sucesso /\ troca.html = {"INVAL"}
    /\ Entradas("sel_post") /= {} /\ ColetouDaPaginaAnterior /\ exit_code = 0

\* C5: a unit-switch request (GET of the unit-selection page, POST of the
\* selection form) is never sent after a record extraction or a page-advance
\* POST.
C5_TrocaAntesDaColeta ==
    \A i \in 1..Len(log) : \A j \in 1..Len(log) :
        (i < j /\ log[i].ev \in {"extrair", "pag_post"})
            => log[j].ev \notin {"sel_get", "sel_post"}

\* C5 witness: a selection form was submitted and pages were advanced later
C5_Witness ==
    \E i \in Entradas("sel_post") : \E j \in Entradas("pag_post") : i < j

\* the advances of group g sent before entry i
AvancosAntes(i, g) == {j \in Entradas("pag_post") : j < i /\ log[j].grupo = g}

\* C6: within a group every page advance targets the index after the
\* previous one, and submits the form of the page the previous advance of
\* that group returned; the first advance of a group submits the form of the
\* initial control page.
C6_PaginasEmOrdem ==
    \A i \in Entradas("pag_post") :
        LET ant == AvancosAntes(i, log[i].grupo)
        IN  /\ IF ant = {}
               THEN log[i].html = log[Ultimo(Entradas("controle_get"))].resp
               ELSE /\ log[i].destino = log[Ultimo(ant)].destino + 1
                    /\ log[i].html = log[Ultimo(ant)].resp
            /\ "hdnInfraToken" \in DOMAIN log[i].data
            /\ log[i].data["hdnInfraToken"] = ValorPorId(log[i].html, "hdnInfraToken")

\* C6 witness: Recebidos was advanced to index 1 and to index 2, and then
\* Gerados was advanced from a page other than the last one of Recebidos
C6_Witness ==
    \E i \in Entradas("pag_post") : \E j \in Entradas("pag_post") :
        /\ i < j
        /\ log[i].grupo = "Recebidos" /\ log[i].destino = 2
        /\ log[j].grupo = "Gerados" /\ log[j].html /= log[i].resp

\* the identity of a record: its internal identifier, else its number
Identidade(p) == IF p.id_procedimento /= <<>> THEN p.id_procedimento
                 ELSE p.numero_processo

\* C7: no two records of the aggregate have the same identity; each record
\* of the aggregate is the first one offered with its identity, unchanged;
\* every identity offered is in the aggregate.
C7_PrimeiroVence ==
    /\ \A i \in 1..Len(processos) : \A j \in 1..Len(processos) :
          i /= j => Identidade(processos[i]) /= Identidade(processos[j])
    /\ \A k \in 1..Len(processos) : \E i \in 1..Len(ofertados) :
          /\ ofertados[i] = processos[k]
          /\ \A j \in 1..(i - 1) : Identidade(ofertados[j]) /= Identidade(processos[k])
    /\ \A i \in 1..Len(ofertados) : \E k \in 1..Len(processos) :
          Identidade(processos[k]) = Identidade(ofertados[i])

\* C7 witness: the same identity was offered twice, by different records,
\* from different pages, and the run exported the aggregate
C7_Witness ==
    /\ pc = "done" /\ exportado
    /\ \E i \in 1..Len(ofertados) : \E j \in 1..Len(ofertados) :
          /\ i < j
          /\ Identidade(ofertados[i]) = Identidade(ofertados[j])
          /\ ofertados[i] /= ofertados[j]
          /\ \E k \in 1..Len(processos) : processos[k] = ofertados[i]

\* C8 as stated: every row of an extracted page that has a process link and
\* a process number but no id_procedimento is in the aggregate, as a record
\* with an empty internal identifier and the canonical number.
C8_LinhaSemIdMantida ==
    \A i \in Entradas("extrair") : \A g \in {"Recebidos", "Gerados"} :
        LET t == log[i].html[g]
        IN  t.tabela =>
              \A r \in 1..Len(t.linhas) :
                 (t.linhas[r].link /\ t.linhas[r].numero /= <<>> /\ t.linhas[r].id = <<>>)
                   => \E k \in 1..Len(processos) :
                         /\ processos[k].id_procedimento = <<>>
                         /\ processos[k].numero_processo
                               = canonizar_processo(t.linhas[r].numero)

CampoPagina(g) == IF g = "Recebidos" THEN "hdnRecebidosPaginaAtual"
                  ELSE "hdnGeradosPaginaAtual"

\* the form of the page carries the hidden current-page field of group g
TemCampoPagina(html, g) ==
    html.temForm /\ CampoPagina(g) \in DOMAIN serializar_formulario(html.elems)

\* C9: an advance asked of a form without the group's hidden current-page
\* field raises SEIProcessoError before any POST: no page-advance POST was
\* ever sent from such a form, a run that stopped there stopped with that
\* error, nothing was sent after the last extraction, nothing was exported,
\* and the exit code is 10.
C9_PaginacaoIndisponivel ==
    /\ \A i \in Entradas("pag_post") : TemCampoPagina(log[i].html, log[i].grupo)
    /\ (erro.msg = "paginacao_indisponivel") =>
          /\ erro.tipo = "SEIProcessoError"
          /\ html_grupo.temForm /\ ~TemCampoPagina(html_grupo, grupo)
          /\ log[Len(log)].ev = "extrair"
          /\ ~exportado
          /\ (pc = "done") => (exit_code = 10)
    /\ (Terminou /\ grupo /= "" /\ EmLaco /\ html_grupo.temForm
          /\ ~TemCampoPagina(html_grupo, grupo) /\ erro.tipo /= "KeyboardInterrupt")
          => (erro.msg = "paginacao_indisponivel")

\* C9 witness: the advance of Recebidos failed for want of the field; the
\* run ended with 10 and the pages of Gerados, which had more than one, were
\* never asked for
C9_Witness ==
    /\ pc = "done" /\ erro.msg = "paginacao_indisponivel" /\ exit_code = 10
    /\ grupo = "Recebidos" /\ info_inicial["Gerados"].total_paginas > 1
    /\ Entradas("pag_post") = {}

CamposProprios(g) ==
    IF g = "Recebidos"
    THEN {"selRecebidosPaginacaoSuperior", "selRecebidosPaginacaoInferior",
          "hdnRecebidosPaginaAtual"}
    ELSE {"selGeradosPaginacaoSuperior", "selGeradosPaginacaoInferior",
          "hdnGeradosPaginaAtual"}

\* C10: a page advance of group G submits the serialized form with G's two
\* page selectors and G's hidden current-page field set to the target index
\* and every other field, the other group's included, as serialized; an
\* advance from a form that has G's hidden field is not refused, whatever
\* fields of the other group the form has.
C10_GruposIndependentes ==
    /\ \A i \in Entradas("pag_post") :
          LET ser == serializar_formulario(log[i].html.elems)
          IN  /\ DOMAIN log[i].data = DOMAIN ser
              /\ \A n \in DOMAIN ser :
                    log[i].data[n] = IF n \in CamposProprios(log[i].grupo)
                                     THEN ToStr(log[i].destino) ELSE ser[n]
    /\ (grupo /= "" /\ TemCampoPagina(html_grupo, grupo))
          => erro.msg \notin {"paginacao_indisponivel", "formulario_nao_encontrado"}

\* C10 witness: Recebidos was advanced from a form holding the fields of
\* Gerados, which went out untouched, and then from a form holding none
C10_Witness ==
    \E i \in Entradas("pag_post") : \E j \in Entradas("pag_post") :
        /\ log[i].grupo = "Recebidos" /\ log[i].destino = 1
        /\ log[i].data["hdnRecebidosPaginaAtual"] = <<"1">>
        /\ log[i].data["hdnGeradosPaginaAtual"] = <<"0">>
        /\ log[j].grupo = "Recebidos" /\ log[j].destino = 2
        /\ DOMAIN log[j].data \cap CamposProprios("Gerados") = {}

----------------------------------------------------------------------------
(* Pagination inference on control screens of every shape *)

\* largest total a caption announces, and most rows a table renders
MaxTotal == 25
MaxLinhas == 2

\* "(<total> registros)": a caption without the interval
CaptionTotal(total) == <<"(">> \o ToStr(total) \o <<" ", "registros", ")">>

\* the <inicio, fim> pairs a caption's interval is drawn from
Intervalos == {<<1, 1>>, <<1, 10>>, <<11, 20>>, <<2, 1>>}

\* the captions of the table of Recebidos; <<>> is a table without caption
Captions ==
    {<<>>} \cup {CaptionTotal(t) : t \in 0..MaxTotal}
           \cup {Caption(t, iv[1], iv[2]) : t \in 0..MaxTotal, iv \in Intervalos}

\* the values of a hidden field; <<>> stands for no such field in the page
ValoresNroItens == {<<>>, <<"0">>, <<"3">>, <<"x">>, <<"-", "2">>}
ValoresItens == {<<>>, <<"7", ",", "8", ",", "9">>, <<",">>}
ValoresPaginaAtual == {<<>>, <<"1">>, <<"x">>}

\* a hidden field of id n when the page has it
HiddenSe(n, v) == IF v = <<>> THEN <<>> ELSE <<Hidden(n, v)>>

\* a control screen whose table of Recebidos has the given caption and n
\* rows, with the hidden fields hdnRecebidosNroItens, hdnRecebidosItens and
\* hdnRecebidosPaginaAtual as given
PaginaPaginacao(caption, n, nro, itens, pag) ==
    Pagina("c_p", TRUE, UnidadeSA, TRUE, TRUE,
           Token(<<"t", "0">>) \o HiddenSe("hdnRecebidosNroItens", nro)
                               \o HiddenSe("hdnRecebidosItens", itens)
                               \o HiddenSe("hdnRecebidosPaginaAtual", pag),
           Tabela(caption, [k \in 1..n |-> Linha(<<"id", ToStr(k)[1]>>, Numero(k), "p-r")]),
           SemTabela)

PaginasPaginacao ==
    {PaginaPaginacao(c, n, nro, itens, pag) :
        c \in Captions, n \in 0..MaxLinhas, nro \in ValoresNroItens,
        itens \in ValoresItens, pag \in ValoresPaginaAtual}

\* the state of a run that logged in, opened the control screen html with
\* the wanted unit active, and is about to collect
NaColeta(html) ==
    /\ pc = "coletar"
    /\ env = [SEI_ORGAO |-> <<"2", "8">>, SEI_UNIDADE |-> UnidadeSA,
              SEI_USER |-> <<"u">>, SEI_PASS |-> <<"p">>]
    /\ session = "open"
    /\ closes = 0
    /\ html_login = {}
    /\ html_controle = html
    /\ controle_url = UrlControle({"Sair"})
    /\ unidade = obter_unidade_atual(html)
    /\ html_selecao = SemPagina
    /\ troca = [tentada |-> FALSE, sucesso |-> FALSE, html |-> {}, motivo |-> ""]
    /\ info_inicial = <<>>
    /\ grupo = ""
    /\ pagina = 0
    /\ html_grupo = SemPagina
    /\ processos = <<>>
    /\ ofertados = <<>>
    /\ log = <<Req("login_get"), Req("login_post"),
               Ev("controle_get", "", -1, EmptyDict, SemPagina, html)>>
    /\ erro = SemErro
    /\ exportado = FALSE
    /\ exit_code = -1
    /\ tx = TxOcioso

InitPaginacao == \E html \in PaginasPaginacao : NaColeta(html)

NextPaginacao == ColetarInicial

\* obter_paginacao_info applied to every page of PaginasPaginacao
SpecPaginacao == InitPaginacao /\ [][NextPaginacao]_vars

\* C11: every inferred PaginationInfo has a page size of at least 1 and as
\* many pages as the least n >= 1 with n * pageSize >= total (that is
\* max(1, ceil(total / pageSize))): 1 page when the total is 0, 3 pages for
\* a total of 25 with a page size of 10.
C11_TotalDePaginas ==
    \A g \in DOMAIN info_inicial :
        LET i == info_inicial[g]
        IN  /\ i.itens_por_pagina >= 1
            /\ i.total_paginas >= 1
            /\ i.total_paginas * i.itens_por_pagina >= i.total_registros
            /\ i.total_paginas > 1
                  => (i.total_paginas - 1) * i.itens_por_pagina < i.total_registros
            /\ i.total_registros = 0 => i.total_paginas = 1
            /\ (i.total_registros = 25 /\ i.itens_por_pagina = 10)
                  => i.total_paginas = 3

\* C11 witness: a caption "25 registros - 1 a 10" gave 3 pages of 10, and
\* the group without table gave total 0 and 1 page
C11_Witness ==
    /\ DOMAIN info_inicial /= {}
    /\ info_inicial["Recebidos"].total_registros = 25
    /\ info_inicial["Recebidos"].itens_por_pagina = 10
    /\ info_inicial["Recebidos"].total_paginas = 3
    /\ info_inicial["Gerados"].total_registros = 0
    /\ info_inicial["Gerados"].total_paginas = 1

\* the caption of table t gives no page size: there is none, or
\* _parse_caption_info returns 0 for itens_por_pagina
SemTamanhoNoCaption(t) == ~t.temCaption \/ _parse_caption_info(t.caption)[2] <= 0

\* hdnRecebidosNroItens as the screen under collection has it
NroItensOculto == ValorPorId(html_controle, "hdnRecebidosNroItens")

\* C12 as stated: when the caption gives no value, the hidden item-count
\* field is the first fallback, so with a usable hidden field its value is
\* the page size whatever the number of rendered rows.
C12_CampoOcultoPrimeiro ==
    (/\ DOMAIN info_inicial /= {}
     /\ html_controle.Recebidos.tabela
     /\ SemTamanhoNoCaption(html_controle.Recebidos)
     /\ IntOk(NroItensOculto) /\ IntVal(NroItensOculto) >= 1)
        => info_inicial["Recebidos"].itens_por_pagina = IntVal(NroItensOculto)

\* C12 amended: when the caption gives no page size, the number of rendered
\* rows is the first fallback; the hidden item-count field is used only
\* when no row is rendered, and max(1, total) when that field is absent,
\* unusable or not positive.
C12_LinhasPrimeiro ==
    (/\ DOMAIN info_inicial /= {}
     /\ html_controle.Recebidos.tabela
     /\ SemTamanhoNoCaption(html_controle.Recebidos))
        => LET n == Len(html_controle.Recebidos.linhas)
               i == info_inicial["Recebidos"]
           IN  i.itens_por_pagina =
                   IF n > 0 THEN n
                   ELSE IF IntOk(NroItensOculto) /\ IntVal(NroItensOculto) >= 1
                        THEN IntVal(NroItensOculto)
                        ELSE Max(1, i.total_registros)

\* C12 witness: no caption, hdnRecebidosNroItens = 3 and 2 rendered rows gave
\* a page size of 2
C12_Witness ==
    /\ DOMAIN info_inicial /= {}
    /\ html_controle.Recebidos.tabela /\ ~html_controle.Recebidos.temCaption
    /\ NroItensOculto = <<"3">>
    /\ Len(html_controle.Recebidos.linhas) = 2
    /\ info_inicial["Recebidos"].itens_por_pagina = 2

----------------------------------------------------------------------------
(* Unit-name matching on selection pages of every spelling *)

\* longest unit name of a table cell
MaxNome == 4

Letras == {"s", "A", "/", " "}

\* the texts of the unit cell of a row
Nomes == UNION {[1..n -> Letras] : n \in 0..MaxNome}

\* the values of SEI_UNIDADE
Alvos == {UnidadeSA, <<"s", "/", "a", " ">>, <<"S", " ", "A">>}

\* a selection page with a header row, a row of the given name and, when
\* comSA, a row spelled "S/A"
PaginaUnidades(texto, comSA) ==
    Selecao("s_n", "infraTable",
            <<[LinhaUnidade(<<>>, FALSE, <<>>) EXCEPT !.th = TRUE],
              LinhaUnidade(texto, TRUE, <<"1", "1">>)>>
            \o (IF comSA THEN <<LinhaUnidade(UnidadeSA, TRUE, <<"1", "2">>)>> ELSE <<>>),
            TRUE)

\* the control page on which another unit is active
ControleOutraUnidade == CHOOSE p \in PaginasControle : p.nome = "c_e"

\* the state of a run that found another unit active, loaded the selection
\* page html_sel and is about to select the unit alvo
NaSelecao(alvo, html_sel) ==
    /\ pc = "selecionar"
    /\ env = [SEI_ORGAO |-> <<"2", "8">>, SEI_UNIDADE |-> alvo,
              SEI_USER |-> <<"u">>, SEI_PASS |-> <<"p">>]
    /\ session = "open"
    /\ closes = 0
    /\ html_login = {}
    /\ html_controle = ControleOutraUnidade
    /\ controle_url = UrlControle({"Sair"})
    /\ unidade = obter_unidade_atual(ControleOutraUnidade)
    /\ html_selecao = html_sel
    /\ troca = [tentada |-> TRUE, sucesso |-> FALSE, html |-> {}, motivo |-> ""]
    /\ info_inicial = <<>>
    /\ grupo = ""
    /\ pagina = 0
    /\ html_grupo = SemPagina
    /\ processos = <<>>
    /\ ofertados = <<>>
    /\ log = <<Req("login_get"), Req("login_post"),
               Ev("controle_get", "", -1, EmptyDict, SemPagina, ControleOutraUnidade),
               Req("sel_get")>>
    /\ erro = SemErro
    /\ exportado = FALSE
    /\ exit_code = -1
    /\ tx = TxOcioso

InitUnidade ==
    \E alvo \in Alvos : \E texto \in Nomes : \E comSA \in BOOLEAN :
        NaSelecao(alvo, PaginaUnidades(texto, comSA))

NextUnidade == SelecionarUnidade

\* selecionar_unidade_sei applied to every page of PaginaUnidades
SpecUnidade == InitUnidade /\ [][NextUnidade]_vars

\* the words of a name: its maximal runs of non-space characters, uppercased
RECURSIVE Palavras(_)
Palavras(s) ==
    LET t == LStrip(s)
    IN  IF t = <<>> THEN <<>>
        ELSE LET fim == First({k \in 1..Len(t) + 1 : k = Len(t) + 1 \/ IsSpace(t[k])})
             IN  <<Upper(SubSeq(t, 1, fim - 1))>> \o Palavras(SubSeq(t, fim, Len(t)))

\* a name with all its whitespace removed, uppercased
SemEspacos(s) == Upper(SelectSeq(s, LAMBDA c : ~IsSpace(c)))

\* the rows of the selection page that can be submitted: two cells or more,
\* no header cell, a radio button with a value
LinhasComRadio ==
    {i \in 1..Len(html_selecao.linhas) :
        LET l == html_selecao.linhas[i]
        IN  ~l.th /\ l.celulas >= 2 /\ l.radio /\ l.valor /= <<>>}

\* the selection returned, and not through its handler of unexpected errors
SelecaoConcluida ==
    pc /= "selecionar" /\ troca.motivo /= "erro_inesperado"

\* the selection of the unit of row i was submitted
Submetida(i) ==
    \E k \in Entradas("sel_post") :
        log[k].data["chkInfraItem"] = html_selecao.linhas[i].valor

\* C13 as stated: matching ignores case and whitespace, so a row whose name
\* differs from the target only in case and in whitespace (as "s / a" from
\* "S/A") is the one selected.
C13_IgnoraEspacos ==
    LET S == {i \in LinhasComRadio :
                 SemEspacos(html_selecao.linhas[i].texto) = SemEspacos(unidade_alvo)}
    IN  (SelecaoConcluida /\ S /= {}) => Submetida(First(S))

\* C13 amended: the target and each cell are trimmed, uppercased and have
\* their whitespace runs collapsed to one space before they are compared, so
\* two names match exactly when they have the same words ignoring case: the
\* first such row is the one submitted, and when there is none nothing is
\* submitted and the unit is reported as not found.
C13_MesmasPalavras ==
    LET S == {i \in LinhasComRadio :
                 Palavras(html_selecao.linhas[i].texto) = Palavras(unidade_alvo)}
    IN  /\ \A k \in Entradas("sel_post") :
              S /= {} /\ log[k].data["chkInfraItem"] = html_selecao.linhas[First(S)].valor
        /\ (SelecaoConcluida /\ S /= {}) => Submetida(First(S))
        /\ (SelecaoConcluida /\ S = {}) => troca.motivo = "unidade_nao_encontrada"

\* C13 witness: for the target "S/A" the row "s/A " was submitted (value 11)
\* although a row spelled "S/A" follows it
C13_Witness ==
    /\ SelecaoConcluida
    /\ unidade_alvo = UnidadeSA
    /\ html_selecao.linhas[2].texto = <<"s", "/", "A", " ">>
    /\ Len(html_selecao.linhas) = 3
    /\ Submetida(2)

----------------------------------------------------------------------------
(* Form serialization on forms of every composition *)

\* most controls named "x" a form holds
MaxCampos == 3

Radio(tipo, v, marcado) ==
    [tag |-> "input", type |-> tipo, id |-> "", name |-> "x", value |-> v,
     checked |-> marcado, options |-> <<>>]

\* the controls named "x": a hidden input, radio buttons (one of them with
\* its type in capitals), a select and a textarea
CamposX == {
    [Hidden("x", <<"h">>) EXCEPT !.id = ""],
    Radio("radio", <<"r", "1">>, FALSE), Radio("radio", <<"r", "2">>, FALSE),
    Radio("radio", <<"r", "1">>, TRUE), Radio("radio", <<"r", "2">>, TRUE),
    Radio("RADIO", <<"r", "3">>, FALSE),
    [Select("x", <<"s">>) EXCEPT !.id = ""],
    [tag |-> "textarea", type |-> "", id |-> "", name |-> "x",
     value |-> <<" ", "t", " ">>, checked |-> FALSE, options |-> <<>>]
}

\* a control screen announcing 2 pages of Recebidos, whose form holds the
\* given controls
PaginaFormulario(elems) ==
    Pagina("c_x", TRUE, UnidadeSA, TRUE, TRUE,
           Token(<<"t", "0">>) \o elems,
           Tabela(Caption(2, 1, 1), <<Linha(Id(1), Numero(1), "x-r1")>>),
           SemTabela)

PaginasFormulario ==
    {PaginaFormulario(CamposDoGrupo("Recebidos", <<"0">>) \o extras) :
        extras \in UNION {[1..n -> CamposX] : n \in 0..MaxCampos}}
    \cup {PaginaFormulario(<<>>)}

InitFormulario == \E html \in PaginasFormulario : NaColeta(html)

NextFormulario == ColetarInicial \/ Paginar

\* serializar_formulario applied, by the first page advance, to every form
\* of PaginasFormulario
SpecFormulario == InitFormulario /\ [][NextFormulario]_vars

\* the controls of a form that carry the name n
ComNome(form, n) == {i \in 1..Len(form) : form[i].name = n}

\* the inputs that are submitted as they stand: not a radio button or a
\* checkbox, or a checked one
InputsComValor(form, n) ==
    {i \in ComNome(form, n) :
        /\ form[i].tag = "input"
        /\ LowerType(form[i].type) \notin {"radio", "checkbox"} \/ form[i].checked}

DoTag(form, n, tag) == {i \in ComNome(form, n) : form[i].tag = tag}

\* C14 as stated: a later rule never overrides the value an earlier rule
\* set: a name that an input gives a value is serialized with the input's
\* value, whatever select or textarea shares the name.
C14_PrimeiraRegraVence ==
    \A k \in Entradas("pag_post") :
        LET form == log[k].html.elems
            I == InputsComValor(form, "x")
        IN  I /= {} => log[k].data["x"] = form[Ultimo(I)].value

\* C14 amended: the rules are applied in the order inputs, selects,
\* textareas, each overriding the values of the rules before it for the
\* same name: a name is serialized with the text of its last textarea, else
\* with the option of its last select, else with the value of its last
\* submitted input; radio gap-filling comes last and assigns the first
\* radio's value only to names that have no value yet.
C14_UltimaRegraVence ==
    \A k \in Entradas("pag_post") :
        LET form == log[k].html.elems
            data == log[k].data
            T == DoTag(form, "x", "textarea")
            S == DoTag(form, "x", "select")
            I == InputsComValor(form, "x")
            R == {i \in ComNome(form, "x") : IsRadio(form[i])}
        IN  IF T /= {} THEN "x" \in DOMAIN data /\ data["x"] = Strip(form[Ultimo(T)].value)
            ELSE IF S /= {}
                 THEN "x" \in DOMAIN data /\ data["x"] = OptionValue(form[Ultimo(S)].options)
            ELSE IF I /= {} THEN "x" \in DOMAIN data /\ data["x"] = form[Ultimo(I)].value
            ELSE IF R /= {} THEN "x" \in DOMAIN data /\ data["x"] = form[First(R)].value
            ELSE "x" \notin DOMAIN data

\* C14 witness: a form with a hidden input, a select and an unchecked radio
\* button of the same name was submitted with the select's value
C14_Witness ==
    \E k \in Entradas("pag_post") :
        LET form == log[k].html.elems
        IN  /\ InputsComValor(form, "x") /= {}
            /\ DoTag(form, "x", "select") /= {}
            /\ DoTag(form, "x", "textarea") = {}
            /\ \E i \in ComNome(form, "x") : IsRadio(form[i]) /\ ~form[i].checked
            /\ log[k].data["x"] = <<"s">>

\* the radio group of name n: the inputs of type radio, however the type is
\* capitalised, as serializar_inputs recognises them
GrupoDeRadios(form, n) ==
    {i \in ComNome(form, n) :
        form[i].tag = "input" /\ LowerType(form[i].type) = "radio"}

\* C15: a radio group none of whose members is checked is serialized with
\* the value of its first radio button, and a group with a checked member
\* with that member's value (stated for the groups whose name no other
\* control of the form carries).
C15_GrupoDeRadiosSerializado ==
    \A k \in Entradas("pag_post") :
        LET form == log[k].html.elems
            data == log[k].data
            G == GrupoDeRadios(form, "x")
            marcados == {i \in G : form[i].checked}
        IN  (G /= {} /\ ComNome(form, "x") = G)
                => /\ "x" \in DOMAIN data
                   /\ IF marcados = {} THEN data["x"] = form[First(G)].value
                      ELSE \E i \in marcados : data["x"] = form[i].value

----------------------------------------------------------------------------
(* Canonicalization of every spelling RE_PROCESSO accepts *)

\* longest run of spaces around "/" and around the dash
MaxEspacos == 2

\* \s? after a dot
EspacoOpcional == {<<>>, <<" ">>, <<"nbsp">>}

\* \s* around "/" and around the dash
Espacos == {[i \in 1..n |-> " "] : n \in 0..MaxEspacos} \cup {<<"nbsp">>}

\* the character class of the dash: hyphen, en dash (U+2013), em dash (U+2014)
Tracos == {"-", "endash", "emdash"}

\* the texts \d{4}\.\s?\d{2}\.\s?\d{7}\s*/\s*\d{4}\s*[dash]\s*\d{2} matches,
\* for one choice of the digits
NumerosAceitos ==
    {<<"2024", ".">> \o e1 \o <<"01", ".">> \o e2 \o <<"0001234">> \o w1 \o <<"/">> \o w2
        \o <<"2024">> \o w3 \o <<t>> \o w4 \o <<"01">> :
        e1 \in EspacoOpcional, e2 \in EspacoOpcional, w1 \in Espacos, w2 \in Espacos,
        w3 \in Espacos, w4 \in Espacos, t \in Tracos}

\* a control screen with one row of Recebidos showing the given number
PaginaNumero(numero) ==
    Pagina("c_n", TRUE, UnidadeSA, TRUE, TRUE,
           Token(<<"t", "0">>) \o CamposDoGrupo("Recebidos", <<"0">>),
           Tabela(<<>>, <<Linha(Id(1), numero, "n-r1")>>),
           SemTabela)

InitCanon == \E numero \in NumerosAceitos : NaColeta(PaginaNumero(numero))

NextCanon == ColetarInicial

\* canonizar_processo applied, by the extraction of the initial page, to
\* every text of NumerosAceitos
SpecCanon == InitCanon /\ [][NextCanon]_vars

\* the number as the collected row showed it
NumeroDaLinha == html_controle.Recebidos.linhas[1].numero

\* C16: canonicalization is idempotent on every text the process-number
\* pattern matches: canonicalizing the canonical number of a record gives
\* the same text again.
C16_Idempotente ==
    \A k \in 1..Len(processos) :
        canonizar_processo(processos[k].numero_processo) = processos[k].numero_processo

\* C16 witness: a number written with a no-break space, two spaces before
\* "/" and an en dash was collected, and canonicalization changed it
C16_Witness ==
    /\ Len(processos) = 1
    /\ \E i \in 1..Len(NumeroDaLinha) : NumeroDaLinha[i] = "nbsp"
    /\ \E i \in 1..Len(NumeroDaLinha) - 2 :
          NumeroDaLinha[i] = " " /\ NumeroDaLinha[i + 1] = " " /\ NumeroDaLinha[i + 2] = "/"
    /\ \E i \in 1..Len(NumeroDaLinha) : NumeroDaLinha[i] = "endash"
    /\ processos[1].numero_processo /= NumeroDaLinha
    /\ canonizar_processo(processos[1].numero_processo) = processos[1].numero_processo

\* C17: canonicalization removes the whitespace after the dots, around "/"
\* and around the dash, whichever dash the pattern accepted, and yields the
\* form NNNN.NN.NNNNNNN/NNNN-NN.
C17_FormaCanonica ==
    \A k \in 1..Len(processos) :
        processos[k].numero_processo =
            <<"2024", ".", "01", ".", "0001234", "/", "2024", "-", "01">>

----------------------------------------------------------------------------
(* HTTP Session: the automatic retries of the mounted adapter *)

\* Retry(total=5, connect=5, read=5, ...)
retry_total == 5
retry_connect == 5
retry_read == 5

status_forcelist == {"429", "500", "502", "503", "504"}

\* variant: only GET is retried
allowed_methods_soGet == {"GET"}

allowed_methods == {"GET", "POST"}

\* the ways a transmission fails in transport: no connection, no (complete)
\* response within the timeout, any other error of the connection
ErrosDeTransporte == {"connect_error", "read_error", "other_error"}

\* what one transmission can end in: a response with a status code (a 413
\* with or without a Retry-After header), or a transport error
Desfechos == {"200", "404", "413", "413_retry_after"} \cup status_forcelist
                 \cup ErrosDeTransporte

\* create_session mounts the Retry ("retry"); where urllib3's Retry cannot be
\* imported the session keeps the default adapter ("sem_retry")
Politicas == {"retry", "sem_retry"}

\* a request handed to the adapter, nothing transmitted yet
TxNovo(metodo, politica) ==
    [estado |-> "enviar", metodo |-> metodo, politica |-> politica, enviados |-> 0,
     total |-> IF politica = "retry" THEN retry_total ELSE 0,
     connect |-> IF politica = "retry" THEN retry_connect ELSE 0,
     read |-> IF politica = "retry" THEN retry_read ELSE 0,
     ultimo |-> ""]

\* variant: the counters are exhausted when they reach 0
Exaurido_emZero(t) == t.total <= 0 \/ t.connect <= 0 \/ t.read <= 0

\* Retry.is_exhausted(): a counter fell below 0
Exaurido(t) == t.total < 0 \/ t.connect < 0 \/ t.read < 0

\* a response of this status is retried: Retry.is_retry(method, status)
StatusRetentavel(t, o) ==
    /\ t.politica = "retry"
    /\ t.metodo \in allowed_methods
    /\ o \in status_forcelist \/ (o = "413_retry_after" /\ t.total /= 0)

\* a read error is retried: the method is allowed (the default adapter has
\* read=False and re-raises)
LeituraRetentavel(t) == t.politica = "retry" /\ t.metodo \in allowed_methods

\* the adapter after a transmission that ended in o: Retry.increment() and
\* either another transmission, the response returned (raise_on_status=False)
\* or the error raised
AposDesfecho(t, o) ==
    LET enviado == [t EXCEPT !.enviados = @ + 1, !.ultimo = o]
        fim == IF o \in ErrosDeTransporte THEN "falhou" ELSE "entregue"
        tentar(r) == [r EXCEPT !.estado = IF Exaurido(r) THEN fim ELSE "enviar"]
    IN  IF o = "connect_error"
        THEN tentar([enviado EXCEPT !.total = @ - 1, !.connect = @ - 1])
        ELSE IF o = "read_error"
             THEN IF LeituraRetentavel(t)
                  THEN tentar([enviado EXCEPT !.total = @ - 1, !.read = @ - 1])
                  ELSE [enviado EXCEPT !.estado = fim]
        ELSE IF o = "other_error" \/ StatusRetentavel(t, o)
             THEN tentar([enviado EXCEPT !.total = @ - 1])
             ELSE [enviado EXCEPT !.estado = fim]

\* one transmission of the request by the adapter
Transmitir ==
    /\ tx.estado = "enviar"
    /\ \E o \in Desfechos : tx' = AposDesfecho(tx, o)
    /\ UNCHANGED <<pc, env, session, closes, html_login, html_controle, controle_url,
                   unidade, html_selecao, troca, info_inicial, grupo, pagina,
                   html_grupo, processos, ofertados, log, erro, exportado, exit_code>>

\* session.get for "login_get", session.post for "login_post"
Metodo(passo) == IF passo = "login_get" THEN "GET" ELSE "POST"

\* the state of a run inside login_sei, at the GET of the login page or at
\* the POST of the credentials
NoLogin(passo, user, pwd) ==
    /\ pc = passo
    /\ env = [SEI_ORGAO |-> <<"2", "8">>, SEI_UNIDADE |-> UnidadeSA,
              SEI_USER |-> user, SEI_PASS |-> pwd]
    /\ session = "open"
    /\ closes = 0
    /\ html_login = {}
    /\ html_controle = SemPagina
    /\ controle_url = ""
    /\ unidade = [atual |-> <<>>, url |-> ""]
    /\ html_selecao = SemPagina
    /\ troca = [tentada |-> FALSE, sucesso |-> FALSE, html |-> {}, motivo |-> ""]
    /\ info_inicial = <<>>
    /\ grupo = ""
    /\ pagina = 0
    /\ html_grupo = SemPagina
    /\ processos = <<>>
    /\ ofertados = <<>>
    /\ log = IF passo = "login_post" THEN <<Req("login_get")>> ELSE <<>>
    /\ erro = SemErro
    /\ exportado = FALSE
    /\ exit_code = -1

InitRetry ==
    \E passo \in {"login_get", "login_post"} : \E politica \in Politicas :
        NoLogin(passo, <<"u">>, <<"p">>) /\ tx = TxNovo(Metodo(passo), politica)

NextRetry == Transmitir

\* the adapter transmitting the two requests of login_sei
SpecRetry == InitRetry /\ [][NextRetry]_vars

\* the adapter has returned to the caller
TxAcabou == tx.estado \in {"entregue", "falhou"}

\* the outcomes after which the mounted Retry has the request transmitted again
Retentaveis == status_forcelist \cup {"413_retry_after"} \cup ErrosDeTransporte

\* C18 as stated: a request is transmitted 5 times at most, and it is
\* transmitted again only after a response of status 429, 500, 502, 503
\* or 504.
C18_NoMaximoCinco ==
    /\ tx.enviados <= 5
    /\ (tx.estado = "enviar" /\ tx.enviados > 0) => tx.ultimo \in status_forcelist

\* C18 amended: a request is transmitted 6 times at most (once, plus the 5
\* retries of the Retry object); it is transmitted again only after a
\* response of status 429, 500, 502, 503 or 504, a 413 carrying a
\* Retry-After header, or a transport error (failure to connect, failure to
\* read the response, other), and then always, until the 5 retries are
\* spent; any other response is returned at once.
C18_NoMaximoSeis ==
    /\ tx.enviados <= retry_total + 1
    /\ (tx.estado = "enviar" /\ tx.enviados > 0)
          => tx.ultimo \in Retentaveis
    /\ (tx.enviados > 0 /\ tx.ultimo \in {"200", "404", "413"}) => tx.estado = "entregue"
    /\ (TxAcabou /\ tx.politica = "retry" /\ tx.ultimo \in Retentaveis)
          => tx.enviados = retry_total + 1

\* C18 witness: a GET was transmitted 6 times, one of them ending in a
\* failure to connect and the last in a 503 that was returned to the caller
C18_Witness ==
    /\ tx.metodo = "GET" /\ tx.enviados = 6 /\ tx.estado = "entregue"
    /\ tx.ultimo = "503" /\ tx.connect = retry_connect - 1

\* C19 as stated: the login submission is excluded from the automatic
\* retries, so the POST of the credentials is transmitted once at most.
C19_LoginPostUmaVez == pc = "login_post" => tx.enviados <= 1

\* C19 amended: the login submission goes through the same adapter as every
\* other request: the POST of the credentials is transmitted again after a
\* 429/500/502/503/504 or a read failure, up to 6 times in all, and such a
\* response reaches login_sei only after the 6th transmission.
C19_LoginPostRepetido ==
    (pc = "login_post" /\ tx.politica = "retry")
        => /\ tx.enviados <= retry_total + 1
           /\ (TxAcabou /\ tx.ultimo \in status_forcelist \cup {"read_error"})
                 => tx.enviados = retry_total + 1

\* C19 witness: the POST of the credentials was transmitted 6 times, every
\* time answered 429 or 5xx
C19_Witness ==
    /\ pc = "login_post" /\ tx.metodo = "POST"
    /\ tx.enviados = 6 /\ tx.estado = "entregue" /\ tx.ultimo = "429"
    /\ tx.connect = retry_connect /\ tx.read = retry_read

----------------------------------------------------------------------------
(* login_sei called with credentials of every kind *)

\* the values of user and of pwd: empty, blank, given
Credenciais == {<<>>, <<" ">>, <<"u">>}

InitLogin ==
    \E user \in Credenciais : \E pwd \in Credenciais :
        NoLogin("login_get", user, pwd) /\ tx = TxOcioso

NextLogin == LoginGet \/ LoginPost \/ Finally \/ MainReturn

\* login_sei called with every pair of Credenciais, and the way its
\* exception leaves the program
SpecLogin == InitLogin /\ [][NextLogin]_vars

\* login_sei was called with an empty user or an empty pwd, and is over
LoginSemCredencial ==
    (env.SEI_USER = <<>> \/ env.SEI_PASS = <<>>) /\ pc /= "login_get"

\* C20: login called with an empty username or an empty password fails at
\* once with a ConfigError, before any request is sent.
C20_ConfigErrorSemRequisicao ==
    LoginSemCredencial => (erro.tipo = "SEIConfigError" /\ log = <<>>)

----------------------------------------------------------------------------
(* Properties of the whole run, continued *)

\* no session was created and no request was sent
SemRede == session = "none" /\ closes = 0 /\ log = <<>>

\* the run is over and was not interrupted by the user
AcabouSemInterrupcao == pc = "done" /\ erro.tipo /= "KeyboardInterrupt"

\* a required setting is unset, empty or made of whitespace only
ConfigEmBranco ==
    \E n \in {"SEI_ORGAO", "SEI_UNIDADE", "SEI_USER", "SEI_PASS"} : Strip(env[n]) = <<>>

\* a required setting is missing as the program tests it: the org code or
\* the unit name unset, empty or blank, the username or the password unset
\* or empty
ConfigAusente ==
    \/ Strip(env.SEI_ORGAO) = <<>> \/ Strip(env.SEI_UNIDADE) = <<>>
    \/ env.SEI_USER = <<>> \/ env.SEI_PASS = <<>>

\* C21 as stated: a run with a required setting missing or blank creates no
\* session, sends no request and ends with a ConfigError and exit code 10.
C21_EmBrancoSemRede ==
    ConfigEmBranco
        => /\ SemRede
           /\ AcabouSemInterrupcao => (erro.tipo = "SEIConfigError" /\ exit_code = 10)

\* C21 amended: a run (not interrupted by the user) with the org code or the
\* unit name missing or blank, or with the username or the password missing
\* or empty, creates no session, sends no request and ends with a
\* ConfigError and exit code 10; no other run ends with a ConfigError, one
\* with a username or password of whitespace only included.
C21_AusenteSemRede ==
    /\ ConfigAusente
          => /\ SemRede
             /\ AcabouSemInterrupcao => (erro.tipo = "SEIConfigError" /\ exit_code = 10)
    /\ ~ConfigAusente => erro.tipo /= "SEIConfigError"

\* C21 witness: the run with a unit name of whitespace only and every other
\* setting given ended with a ConfigError and exit code 10, no session created
C21_Witness ==
    /\ env.SEI_UNIDADE = <<" ">> /\ env.SEI_ORGAO /= <<>>
    /\ env.SEI_USER = <<"u">> /\ env.SEI_PASS = <<"p">>
    /\ pc = "done" /\ erro.tipo = "SEIConfigError" /\ exit_code = 10 /\ SemRede


\* a request failed in transport and its error, as raised or wrapped, is the
\* pending exception
TransporteFalhou == erro.causa = "RequestException" \/ erro.tipo = "RequestException"

\* the request the run sent last
UltimaRequisicao == IF log = <<>> THEN "" ELSE log[Len(log)].ev

\* C22: a transport failure of the login GET or POST leaves the run with an
\* AuthError (SEILoginError), a transport failure of a control-screen GET
\* with a ListingError (SEIProcessoError); in both cases the run ends with
\* exit code 10, never 99
C22_TransporteViraErroDeDominio ==
    TransporteFalhou =>
        /\ UltimaRequisicao \in {"login_get", "login_post"} => erro.tipo = "SEILoginError"
        /\ UltimaRequisicao = "controle_get" => erro.tipo = "SEIProcessoError"
        /\ (pc = "done" /\ UltimaRequisicao \in {"login_get", "login_post", "controle_get"})
              => exit_code = 10

C22_Witness ==
    /\ pc = "done"
    /\ TransporteFalhou
    /\ UltimaRequisicao = "login_post"
    /\ erro.tipo = "SEILoginError"
    /\ exit_code = 10


\* the target indexes of the page-advance POSTs sent for group g, in order
DestinosDe(g) ==
    LET DoGrupo(e) == e.ev = "pag_post" /\ e.grupo = g
        posts == SelectSeq(log, DoGrupo)
    IN  [i \in 1..Len(posts) |-> posts[i].destino]

\* the indexes p+1 .. T-1, for the current index p and the total T the first
\* control page gives for group g (the empty sequence when p >= T-1)
DestinosEsperados(g) ==
    LET p == info_inicial[g].pagina_atual
        T == info_inicial[g].total_paginas
    IN  IF p >= T - 1 THEN <<>> ELSE [i \in 1..(T - 1 - p) |-> p + i]

EhPrefixo(s, t) == Len(s) <= Len(t) /\ s = SubSeq(t, 1, Len(s))

\* collection has returned: both loops ran to their end
ColetaConcluida == pc = "exportar"

MesmoNomeAparado(a, b) == Upper(Strip(a)) = Upper(Strip(b))

\* no request of the unit switch has been sent
SemPedidoDeTroca == Entradas("sel_get") = {} /\ Entradas("sel_post") = {}

\* C24 as stated: when the current unit equals the target up to case and
\* whitespace, or no switch URL is available, no unit-selection GET or POST
\* is sent
C24_SemTrocaSeIguaisSemEspacos ==
    (SemEspacos(unidade_alvo) = SemEspacos(unidade.atual) \/ unidade.url = "")
        => SemPedidoDeTroca

\* C24, amended: when the current unit equals the target up to case and
\* leading and trailing whitespace, or no switch URL is available, no
\* unit-selection GET or POST is sent; when they differ and a switch URL is
\* available the selection page is requested exactly once and the selection
\* submitted at most once
C24_TrocaSoQuandoPreciso ==
    /\ (MesmoNomeAparado(unidade_alvo, unidade.atual) \/ unidade.url = "")
          => SemPedidoDeTroca
    /\ Cardinality(Entradas("sel_post")) <= 1
    /\ (/\ ~MesmoNomeAparado(unidade_alvo, unidade.atual)
        /\ unidade.url /= ""
        /\ pc /= "sel_get"
        /\ erro.tipo /= "KeyboardInterrupt")
          => Cardinality(Entradas("sel_get")) = 1

\* the current unit "S /A" and the target "S/A" differ by a space inside the
\* name only, and the switch was attempted, once
C24_Witness ==
    /\ pc = "done"
    /\ unidade.url /= ""
    /\ ~MesmoNomeAparado(unidade_alvo, unidade.atual)
    /\ SemEspacos(unidade_alvo) = SemEspacos(unidade.atual)
    /\ Cardinality(Entradas("sel_get")) = 1
    /\ Cardinality(Entradas("sel_post")) = 1


\* the page collection starts from is the control page fetched last; that
\* fetch is the second one, made after the selection was submitted, when the
\* switch succeeded, and the only one otherwise
ColetaDaUltimaBusca ==
    Entradas("extrair") /= {} =>
        LET e == First(Entradas("extrair"))
            c == Ultimo(Entradas("controle_get"))
        IN  /\ c < e
            /\ log[e].html = log[c].resp
            /\ html_controle = log[c].resp
            /\ IF troca.sucesso
               THEN /\ Cardinality(Entradas("controle_get")) = 2
                    /\ \E s \in Entradas("sel_post") : s < c
               ELSE Cardinality(Entradas("controle_get")) = 1

\* the control page and its URL are those of the reload when the run goes
\* from the reload to collection, and no other step than a fetch of the
\* control screen changes them
UrlDaUltimaBusca ==
    /\ (pc = "recarregar_controle" /\ pc' = "coletar")
          => /\ controle_url' = UrlControle(troca.html)
             /\ html_controle' = log'[Len(log')].resp
    /\ (pc \notin {"abrir_controle", "recarregar_controle"})
          => UNCHANGED <<controle_url, html_controle>>

\* C25: after a successful unit switch the control screen is fetched again
\* before collection, and collection works on the reloaded page and its URL;
\* after a failed switch or without a switch URL, collection works on the
\* control page fetched before, and no other fetch of the control screen is
\* made
C25_ColetaAposRecarga == [](ColetaDaUltimaBusca) /\ [][UrlDaUltimaBusca]_vars

\* the unit was switched, the control screen fetched again with another
\* page for answer, and the records collected from that page
C25_Witness ==
    /\ pc = "done" /\ exit_code = 0
    /\ troca.sucesso
    /\ Cardinality(Entradas("controle_get")) = 2
    /\ log[First(Entradas("controle_get"))].resp /= log[Ultimo(Entradas("controle_get"))].resp
    /\ log[First(Entradas("extrair"))].html = log[Ultimo(Entradas("controle_get"))].resp


----------------------------------------------------------------------------
(* Record extraction: extrair_processos on generated tables *)

\* the rows a table is made of: two well-formed rows, a row without the
\* process link, a row whose link shows no process number, a row whose
\* processing raises, a row without id_procedimento
LinhasPossiveis ==
    {Linha(Id(1), Numero(1), "x1"), Linha(Id(2), Numero(2), "x2"),
     LinhaSemLink, Linha(Id(1), <<>>, "x3"), LinhaQueLevanta(Numero(2), "x4"),
     Linha(<<>>, Numero(1), "x5")}

MaxLinhasTabela == 3

TabelasRecebidos ==
    {Tabela(<<>>, ls) : ls \in UNION {[1..n -> LinhasPossiveis] : n \in 0..MaxLinhasTabela}}

TabelasGerados ==
    {SemTabela, Tabela(<<>>, <<>>),
     Tabela(<<>>, <<LinhaQueLevanta(Numero(1), "y1"), Linha(Id(2), Numero(2), "y2")>>)}

PaginaExtracao(recebidos, gerados) ==
    Pagina("c_x", TRUE, UnidadeSA, TRUE, TRUE, Token(<<"t", "0">>), recebidos, gerados)

InitExtracao ==
    \E r \in TabelasRecebidos \cup {SemTabela} : \E g \in TabelasGerados :
        NaColeta(PaginaExtracao(r, g))

NextExtracao == ColetarInicial

\* extrair_processos applied, by the extraction of the initial page, to every
\* page of the generated tables
SpecExtracao == InitExtracao /\ [][NextExtracao]_vars

\* the row is skipped: no process link, no process number, or an exception
LinhaFalha(l) == ~l.link \/ l.numero = <<>> \/ l.levanta

SemFalhas(t) == [t EXCEPT !.linhas = SelectSeq(t.linhas, LAMBDA l : ~LinhaFalha(l))]

\* the page without the rows that are skipped
PaginaSemFalhas(html) ==
    [html EXCEPT !.Recebidos = SemFalhas(html.Recebidos),
                 !.Gerados = SemFalhas(html.Gerados)]

\* the rows of the two tables in the order of extraction, with their group
LinhasDaPagina(html) ==
    [i \in 1..Len(html.Recebidos.linhas) |->
        [linha |-> html.Recebidos.linhas[i], categoria |-> "Recebidos"]]
    \o [i \in 1..Len(html.Gerados.linhas) |->
        [linha |-> html.Gerados.linhas[i], categoria |-> "Gerados"]]

\* row i is well formed, has an id_procedimento, and no well-formed row
\* before it on the page has the same
LinhaNova(ls, i) ==
    /\ ~LinhaFalha(ls[i].linha)
    /\ ls[i].linha.id /= <<>>
    /\ \A j \in 1..(i - 1) : LinhaFalha(ls[j].linha) \/ ls[j].linha.id /= ls[i].linha.id

Extraiu == pc = "paginar" /\ Len(log) = 4 /\ log[4].ev = "extrair"

\* C26: the rows that lack the process link, show no process number or
\* raise are skipped and change nothing for the other rows: the page yields
\* the records it would yield without them, among which one for every
\* well-formed row with an id_procedimento not seen earlier on the page; a
\* group whose table is absent yields no record, and nothing is raised
C26_FalhasIsoladas ==
    Extraiu =>
        LET ls == LinhasDaPagina(html_controle)
        IN  /\ erro = SemErro
            /\ ofertados = extrair_processos(PaginaSemFalhas(html_controle))
            /\ \A i \in 1..Len(ls) : LinhaNova(ls, i) =>
                  \E k \in 1..Len(ofertados) :
                      /\ ofertados[k].id_procedimento = ls[i].linha.id
                      /\ ofertados[k].titulo = ls[i].linha.titulo
                      /\ ofertados[k].categoria = ls[i].categoria
            /\ \A g \in {"Recebidos", "Gerados"} :
                  ~html_controle[g].tabela =>
                      \A k \in 1..Len(ofertados) : ofertados[k].categoria /= g

\* a row that raises stands between two well-formed rows, the table of
\* Gerados is absent, and the two well-formed rows are returned
C26_Witness ==
    /\ Extraiu
    /\ ~html_controle.Gerados.tabela
    /\ Len(html_controle.Recebidos.linhas) = 3
    /\ ~LinhaFalha(html_controle.Recebidos.linhas[1])
    /\ html_controle.Recebidos.linhas[2].levanta
    /\ ~LinhaFalha(html_controle.Recebidos.linhas[3])
    /\ Len(ofertados) = 2
    /\ ofertados[2].titulo = html_controle.Recebidos.linhas[3].titulo


\* AuthError and ListingError
ErrosDeDominio == {"SEILoginError", "SEIProcessoError"}

\* each domain step was taken at most once: one login GET and POST, one
\* fetch of the control screen after the login and one more after a
\* successful switch only, one advance for each group and target index
PassosUmaVez ==
    /\ Cardinality(Entradas("login_get")) <= 1
    /\ Cardinality(Entradas("login_post")) <= 1
    /\ Cardinality(Entradas("controle_get")) <= (IF troca.sucesso THEN 2 ELSE 1)
    /\ \A i \in Entradas("pag_post") : \A j \in Entradas("pag_post") :
          (log[i].grupo = log[j].grupo /\ log[i].destino = log[j].destino) => i = j

\* with a domain error pending the run is on its way out and has not exported;
\* what was exported was paginated to the end
ErroEncerra ==
    /\ erro.tipo \in ErrosDeDominio
          => (pc \in {"finally", "main_except", "done"} /\ ~exportado)
    /\ exportado => \A g \in {"Recebidos", "Gerados"} : DestinosDe(g) = DestinosEsperados(g)

\* with a domain error pending no step sends a request or exports
NadaAposErro ==
    erro.tipo \in ErrosDeDominio
        => (log' = log /\ exportado' = exportado /\ erro' = erro /\ pc' /= "exportar")

\* C27: domain-level failures are not retried and stop the run: the login,
\* the opening of the control screen and each page advance are made at most
\* once for a given target; after an AuthError or a ListingError no request
\* is sent and the export is not invoked, so that a set paginated in part is
\* never exported
C27_FalhaDeDominioEncerra ==
    [](PassosUmaVez /\ ErroEncerra) /\ [][NadaAposErro]_vars

\* a group was advanced once, the next advance raised a ListingError, and
\* the run ended with records collected and nothing exported
C27_Witness ==
    /\ pc = "done" /\ exit_code = 10
    /\ erro.tipo = "SEIProcessoError"
    /\ Entradas("pag_post") /= {}
    /\ \E g \in {"Recebidos", "Gerados"} : DestinosDe(g) /= DestinosEsperados(g)
    /\ processos /= <<>>
    /\ ~exportado


\* the run logged in, every page advance of both groups was answered, no
\* record was collected, and the run is past the export without interrupt
ColetouNada ==
    /\ info_inicial /= <<>>
    /\ \A g \in {"Recebidos", "Gerados"} : DestinosDe(g) = DestinosEsperados(g)
    /\ \A i \in Entradas("pag_post") : log[i].resp /= SemPagina
    /\ processos = <<>>
    /\ pc \in {"finally", "main_except", "done"}
    /\ erro.tipo /= "KeyboardInterrupt"

\* C28: a run that authenticates and paginates to the end but collects no
\* record does not end with exit code 0: the export raises a ListingError,
\* no file is written and the exit code is 10
C28_ColetaVaziaFalha ==
    ColetouNada =>
        /\ erro.tipo = "SEIProcessoError"
        /\ ~exportado
        /\ pc = "done" => exit_code = 10

C28_Witness ==
    /\ ColetouNada
    /\ pc = "done"
    /\ Entradas("pag_post") /= {}
    /\ erro.tipo = "SEIProcessoError"
    /\ ~exportado
    /\ exit_code = 10


\* where the run is: the statement, and the group and target index of the
\* pagination loops; every step of Next changes it
Posicao == <<pc, grupo, pagina>>

\* the run moves on from a position that is not the end of main()
Prosseguir ==
    /\ pc /= "done"
    /\ pc' \in PassosAntes \cup PassosTry \cup {"finally", "main_except", "done"}
    /\ grupo' \in {"", "Recebidos", "Gerados"}
    /\ pagina' \in 0..(MaxTotal + 1)

\* the run when every HTTP request returns, with a response or with an
\* error: the program is sequential, so that a run that has not reached the
\* end of main() takes its next step
FairSpec == Spec /\ WF_Posicao(Prosseguir)

\* every step of the run changes the position
CadaPassoAvanca == [][Posicao' /= Posicao]_vars

\* T - 1 - p for group g, from the pagination read off the first control page
Restantes(g) == info_inicial[g].total_paginas - 1 - info_inicial[g].pagina_atual

NumAvancos == Cardinality(Entradas("pag_post"))

CodigosDeSaida == {0, 10, 130, 99}

\* C29 as stated: the number of page-advance POSTs is at most
\* (T_received - 1 - p_received) + (T_generated - 1 - p_generated)
C29_LimiteSomado ==
    info_inicial /= <<>> => NumAvancos <= Restantes("Recebidos") + Restantes("Gerados")

\* the advances of each group are at most T - 1 - p, and none when that is
\* negative
LimiteDeAvancos ==
    IF info_inicial = <<>> THEN NumAvancos = 0
    ELSE NumAvancos <= Max(0, Restantes("Recebidos")) + Max(0, Restantes("Gerados"))

\* C29, amended: collection always terminates: when every HTTP request
\* returns, the number of page-advance POSTs is bounded by the page counts
\* read off the first control page alone, at most max(0, T - 1 - p) for each
\* group, whatever the later responses report, and the run reaches one of
\* its exit codes in the end
C29_ColetaTermina ==
    [](LimiteDeAvancos) /\ <>(pc = "done" /\ exit_code \in CodigosDeSaida)

\* Recebidos was advanced once, as its two pages allow, although the first
\* page put Gerados at index 1 of one page, and the run ended
C29_Witness ==
    /\ pc = "done" /\ exit_code \in CodigosDeSaida
    /\ info_inicial /= <<>>
    /\ Restantes("Recebidos") = 1
    /\ Restantes("Gerados") = -1
    /\ NumAvancos = 1
    /\ \E i \in Entradas("pag_post") : log[i].resp /= SemPagina
                                        /\ log[i].resp.Recebidos /= html_controle.Recebidos

====
